---- MODULE Spec2Model ----
\* A model of experiments/utils/rag_simulator.py (class RAGSimulator): the three
\* retrieval strategies, context assembly and the experiment runner, together
\* with the remote services they talk to (entity store, embedding service,
\* text-generation service), which are the environment of the program.
\*
\* Conventions
\*   - a Python dict is a function whose DOMAIN is the set of its keys;
\*   - a Python list is a sequence;
\*   - an optional value (None or a value) is a sequence of length 0 or 1;
\*   - a float parameter is an integer number of hundredths (0.65 is 65);
\*   - time.time() is the logical clock `now`; every remote request takes at
\*     least one tick.
EXTENDS Integers, Sequences, FiniteSets, TLC

VARIABLES
    world_id,          \* RAGSimulator.world_id, set by the constructor
    op,                \* the method the caller invoked ("" when none is running)
    pc,                \* position inside the running method
    args,              \* parameters of the running invocation
    world_info,        \* run_experiment: world_response.data
    query_embedding,   \* the embedding handed to retrieve_with_rag
    all_entities,      \* retrieve_random_entities: result of retrieve_all_entities
    results,           \* the dict under construction in the running retrieval
    i,                 \* index of the next loop iteration (1-based)
    context,           \* run_experiment: the assembled context
    requests,          \* every remote request issued by the invocation, in order
    warnings,          \* entity types for which a "Warning: Failed to retrieve" was printed
    now,               \* the logical clock
    rng,               \* state of the random generator of module random (-1: not yet used)
    outcome,           \* value returned to the caller (optional)
    error,             \* exception raised to the caller ("" when none)
    calls,             \* the invocations the caller completed earlier, in order
    inserted           \* the rows a seeding script has inserted, by table, in order

vars == <<world_id, op, pc, args, world_info, query_embedding, all_entities,
          results, i, context, requests, warnings, now, rng, outcome, error,
          calls, inserted>>

-----------------------------------------------------------------------------
\* Bounds of the model.

\* Largest number of rows a world holds in a category other than rules.
MaxRows == 4
\* Largest ordinary top_k the caller passes (besides -1 and RulesFloor + 1).
MaxTopK == 4
\* Longest duration, in ticks, of the generation request (every other remote
\* request and the context assembly take one tick).
MaxDelay == 2
\* Number of store requests the environment makes fail in one invocation.
MaxFailures == 2
\* Largest state the random generator can be in when retrieve_random_entities
\* starts sampling.
MaxSeed == 1

-----------------------------------------------------------------------------
\* Program constants.

\* retrieve_with_rag / retrieve_random_entities: max(k, 10) for rules.
RulesFloor == 10
\* retrieve_with_rag: min(top_k, 3) for organizations and taxonomies.
SmallCap == 3

\* The category list with the rules read first and the taxonomies left out.
entity_types_rules_first ==
    <<"rules", "items", "abilities", "locations", "npcs", "organizations">>

\* The category list of retrieve_all_entities, which is also the key order of
\* the entity_types dict of retrieve_with_rag.
entity_types ==
    <<"items", "abilities", "locations", "npcs",
      "organizations", "taxonomies", "rules">>

Min(a, b) == IF a <= b THEN a ELSE b
Max(a, b) == IF a >= b THEN a ELSE b

\* The elements of a sequence.
Range(s) == {s[n] : n \in 1..Len(s)}

-----------------------------------------------------------------------------
\* The remote services (the environment of the simulator).

\* The worlds the store knows. A simulator may be built for a world id the
\* store does not hold ("wx").
Worlds == {"w1", "w2"}
WorldIds == Worlds \cup {"wx"}

\* The player messages the callers pass.
Messages == {"I attack the goblin", "I look around"}
\* top_k values: a negative one, zero, one, an ordinary one and one above the
\* rules floor.
TopKs == {-1, 0, 1, MaxTopK, RulesFloor + 1}
\* similarity_threshold values, in hundredths.
Thresholds == {65, 99}
\* temperature values, in tenths.
Temperatures == {5, 8}
\* mode tags the callers pass.
Modes == {"rag", "no_rag", "random", "full", "similarity", "bogus"}

\* Number of rows of entity type c the store holds for world w: w1 is a world
\* with many rules and little else, w2 a world with a few rows of most types.
RowCount(w, c) ==
    CASE w = "w1" -> (CASE c = "rules" -> RulesFloor + 1
                        [] c = "items" -> 1
                        [] OTHER -> 0)
      [] w = "w2" -> (CASE c = "items" -> MaxRows - 1
                        [] c = "abilities" -> 1
                        [] c = "locations" -> 0
                        [] c = "npcs" -> 2
                        [] c = "organizations" -> MaxRows
                        [] c = "taxonomies" -> 1
                        [] c = "rules" -> 2
                        [] OTHER -> 0)
      [] OTHER -> 0

\* One stored row. `embedding` stands for the stored vector.
Row(c, w, n) ==
    [id |-> c \o "/" \o w \o "/" \o ToString(n),
     world_id |-> w,
     name |-> c \o "-" \o ToString(n),
     description |-> IF n % 2 = 0 THEN "" ELSE "about " \o c \o "-" \o ToString(n),
     is_priority |-> (c = "rules" /\ n % 2 = 1),
     embedding |-> n]

\* The table of entity type c, in store-native order (rows of all worlds).
Table(c) ==
    [n \in 1..RowCount("w2", c) |-> Row(c, "w2", n)]
        \o [n \in 1..RowCount("w1", c) |-> Row(c, "w1", n)]

\* The worlds table.
WorldsTable ==
    << [id |-> "w1", name |-> "Eldoria", tone |-> "grim",
        setting |-> "frontier", description |-> "A harsh land"],
       [id |-> "w2", name |-> "Mirelands", tone |-> "heroic",
        setting |-> "swamp", description |-> "A drowned kingdom"] >>

\* The rows of a table whose column has the value, in store-native order.
SelectEq(table, column, value) ==
    SelectSeq(table, LAMBDA r : r[column] = value)

\* table(name).select('*').eq(column, value).execute() on the store.
Execute(query) ==
    SelectEq(IF query.table = "worlds" THEN WorldsTable ELSE Table(query.table),
             query.column, query.value)

\* The embedding service: text to vector.
Embed(text) == <<Len(text)>>

\* Similarity of a stored row to a query vector, in hundredths (50..99).
Similarity(r, e) == 50 + ((r.embedding * 20 + e[1]) % 50)

\* Insert row r into a sequence sorted by decreasing similarity to e.
RECURSIVE InsertBySimilarity(_, _, _)
InsertBySimilarity(r, s, e) ==
    IF s = <<>> THEN <<r>>
    ELSE IF Similarity(r, e) > Similarity(Head(s), e) THEN <<r>> \o s
    ELSE <<Head(s)>> \o InsertBySimilarity(r, Tail(s), e)

RECURSIVE SortBySimilarity(_, _)
SortBySimilarity(s, e) ==
    IF s = <<>> THEN <<>>
    ELSE InsertBySimilarity(Head(s), SortBySimilarity(Tail(s), e), e)

\* The store's match_<entity_type> function: the rows of the world whose
\* similarity to the query reaches the threshold, nearest first, at most
\* match_count of them.
Match(c, params) ==
    LET hits == SelectSeq(SelectEq(Table(c), "world_id", params.world_id),
                          LAMBDA r : Similarity(r, params.query_embedding)
                                        >= params.match_threshold)
        sorted == SortBySimilarity(hits, params.query_embedding)
    IN  SubSeq(sorted, 1, Min(Len(sorted), params.match_count))

\* What a store request may come back with when the store holds `rows` for it:
\* the rows, or (when there are none) no data at all. <<>> is None.
Answers(rows) == {<<rows>>} \cup (IF rows = <<>> THEN {<<>>} ELSE {})

\* The text the generation service answers with.
Completion(messages) == "The goblin snarls and raises its blade."

-----------------------------------------------------------------------------
\* Pure parts of RAGSimulator.

\* dict.get(key) with a default.
Get(d, key, default) == IF key \in DOMAIN d THEN d[key] ELSE default

\* d[key] = value on a dict.
Put(d, key, value) ==
    [x \in DOMAIN d \cup {key} |-> IF x = key THEN value ELSE d[x]]

\* A variant of DataOrEmpty that keeps the first top_k rows of the answer.
DataOrEmpty_top_k(data) ==
    IF data = <<>> THEN <<>>
    ELSE SubSeq(data[1], 1, Min(Len(data[1]), Max(args.top_k, 0)))

\* `response.data` alone: an answer without data is kept as it is.
DataOrEmpty_unguarded(data) == IF data = <<>> THEN <<"None">> ELSE data[1]

\* `response.data if response.data else []`, data being optional.
DataOrEmpty(data) == IF data = <<>> THEN <<>> ELSE data[1]

\* run_experiment: the query of the metadata read.
world_query(wid) == [table |-> "worlds", column |-> "id", value |-> wid]

\* A variant of entity_query that reads the rows of one fixed world.
entity_query_fixed_world(entity_type, wid) ==
    [table |-> entity_type, column |-> "world_id", value |-> "w1"]

\* retrieve_all_entities: the query of one entity read.
entity_query(entity_type, wid) ==
    [table |-> entity_type, column |-> "world_id", value |-> wid]

\* A variant of except_result that only prints the warning.
except_result_missing(d, entity_type) == d

\* The except branches of retrieve_with_rag and retrieve_all_entities:
\* results[entity_type] = [].
except_result(d, entity_type) == Put(d, entity_type, <<>>)

\* A variant of dispatch that falls back to the full retrieval.
dispatch_default(mode) ==
    CASE mode = "rag" -> "embed"
      [] OTHER -> "select"

\* A variant of dispatch that takes "rag" for the full retrieval and "no_rag"
\* for the similarity retrieval.
dispatch_swapped(mode) ==
    CASE mode = "rag" -> "select"
      [] mode = "no_rag" -> "embed"
      [] mode = "random" -> "select"
      [] OTHER -> "raised"

\* A variant of dispatch that computes the query embedding in every mode but
\* random.
dispatch_embed_first(mode) ==
    CASE mode = "rag" -> "embed"
      [] mode = "no_rag" -> "embed"
      [] mode = "random" -> "select"
      [] OTHER -> "raised"

\* run_experiment, lines 237-252: where the mode sends the invocation.
dispatch(mode) ==
    CASE mode = "rag" -> "embed"
      [] mode = "no_rag" -> "select"
      [] mode = "random" -> "select"
      [] OTHER -> "raised"

\* A variant of match_count that gives every entity type the limit top_k.
match_count_uniform(entity_type, top_k) == top_k

\* retrieve_with_rag: the values of the entity_types dict.
match_count(entity_type, top_k) ==
    CASE entity_type \in {"organizations", "taxonomies"} -> Min(top_k, SmallCap)
      [] entity_type = "rules" -> Max(top_k, RulesFloor)
      [] OTHER -> top_k

\* A variant of rpc_params whose threshold is lowered with the temperature.
rpc_params_tempered(entity_type, wid, embedding, top_k, similarity_threshold) ==
    [query_embedding |-> embedding,
     world_id |-> wid,
     match_count |-> match_count(entity_type, top_k),
     match_threshold |-> similarity_threshold - (8 - args.temperature)]

\* retrieve_with_rag: the parameters of the rpc call.
rpc_params(entity_type, wid, embedding, top_k, similarity_threshold) ==
    [query_embedding |-> embedding,
     world_id |-> wid,
     match_count |-> match_count(entity_type, top_k),
     match_threshold |-> similarity_threshold]

\* A variant of sample_size that treats rules as any other entity type.
sample_size_no_floor(entity_type, entities, k) == Min(Len(entities), k)

\* retrieve_random_entities: sample_size.
sample_size(entity_type, entities, k) ==
    IF entity_type = "rules"
    THEN Min(Len(entities), Max(k, RulesFloor))
    ELSE Min(Len(entities), k)

\* s without its j-th element.
Remove(s, j) == SubSeq(s, 1, j - 1) \o SubSeq(s, j + 1, Len(s))

\* The random generator: its next state, and the index below m it yields.
NextRng(seed) == (5 * seed + 3) % 16
RandBelow(seed, m) == seed % m

\* The state of the generator after n draws.
RECURSIVE AdvanceRng(_, _)
AdvanceRng(seed, n) == IF n <= 0 THEN seed ELSE AdvanceRng(NextRng(seed), n - 1)

\* A variant of random_sample that draws with replacement.
RECURSIVE random_sample_with_replacement(_, _, _)
random_sample_with_replacement(population, n, seed) ==
    IF n <= 0 THEN <<>>
    ELSE LET j == RandBelow(seed, Len(population)) + 1
         IN  <<population[j]>>
                \o random_sample_with_replacement(population, n - 1, NextRng(seed))

\* random.sample(population, n) with the generator in state seed: n draws, each
\* from the pool of the elements not drawn yet.
RECURSIVE random_sample(_, _, _)
random_sample(population, n, seed) ==
    IF n <= 0 THEN <<>>
    ELSE LET j == RandBelow(seed, Len(population)) + 1
         IN  <<population[j]>>
                \o random_sample(Remove(population, j), n - 1, NextRng(seed))

\* random.sample raises ValueError for a negative or too large sample size.
sample_raises(population, n) == n < 0 \/ n > Len(population)

\* A variant of sampled that draws from all the entities but the first.
sampled_but_first(entity_type, entities, k, seed) ==
    IF entities = <<>> THEN <<>>
    ELSE random_sample(Tail(entities),
                       Min(Len(entities) - 1, sample_size(entity_type, entities, k)),
                       seed)

\* retrieve_random_entities: `random.sample(...) if entities else []`.
sampled(entity_type, entities, k, seed) ==
    IF entities = <<>> THEN <<>>
    ELSE random_sample(entities, sample_size(entity_type, entities, k), seed)

\* text.split("\n"): the pieces of text between its newline characters.
RECURSIVE SplitFrom(_, _, _)
SplitFrom(text, cuts, p) ==
    LET later == {y \in cuts : y > p}
        next == CHOOSE x \in later : \A z \in later : x <= z
    IN  <<SubSeq(text, p + 1, next - 1)>>
        \o (IF next > Len(text) THEN <<>> ELSE SplitFrom(text, cuts, next))

Split(text) ==
    SplitFrom(text,
              {Len(text) + 1} \cup {n \in 1..Len(text) : SubSeq(text, n, n) = "\n"},
              0)

\* "\n".join(parts)
RECURSIVE Join(_)
Join(parts) ==
    IF parts = <<>> THEN ""
    ELSE IF Len(parts) = 1 THEN parts[1]
    ELSE parts[1] \o "\n" \o Join(Tail(parts))

\* len(text.split()): the number of maximal runs of non-blank characters.
SplitLen(text) ==
    LET blanks == {n \in 1..Len(text) : SubSeq(text, n, n) \in {" ", "\n"}}
    IN  Cardinality({n \in (1..Len(text)) \ blanks : n = 1 \/ n - 1 \in blanks})

\* section_lines without the entities that have no description.
section_lines_described_only(header, entity_list, is_rules) ==
    IF entity_list = <<>> THEN <<>>
    ELSE LET described == SelectSeq(entity_list, LAMBDA e : "description" \in DOMAIN e)
         IN  <<header>>
             \o [n \in 1..Len(described) |->
                    LET e == described[n]
                        priority == IF is_rules /\ Get(e, "is_priority", FALSE)
                                    THEN "[HIGH PRIORITY] " ELSE ""
                    IN  "- " \o priority \o e.name \o ": " \o Get(e, "description", "")]
             \o <<"">>

\* section_lines without the blank line that closes the section.
section_lines_no_blank(header, entity_list, is_rules) ==
    IF entity_list = <<>> THEN <<>>
    ELSE <<header>>
         \o [n \in 1..Len(entity_list) |->
                LET e == entity_list[n]
                    priority == IF is_rules /\ Get(e, "is_priority", FALSE)
                                THEN "[HIGH PRIORITY] " ELSE ""
                IN  "- " \o priority \o e.name \o ": " \o Get(e, "description", "")]

\* section_lines with the priority prefix in every category.
section_lines_priority_everywhere(header, entity_list, is_rules) ==
    IF entity_list = <<>> THEN <<>>
    ELSE <<header>>
         \o [n \in 1..Len(entity_list) |->
                LET e == entity_list[n]
                    priority == IF Get(e, "is_priority", FALSE)
                                THEN "[HIGH PRIORITY] " ELSE ""
                IN  "- " \o priority \o e.name \o ": " \o Get(e, "description", "")]
         \o <<"">>

\* section_lines without the test for an empty list.
section_lines_always(header, entity_list, is_rules) ==
    <<header>>
    \o [n \in 1..Len(entity_list) |->
           LET e == entity_list[n]
               priority == IF is_rules /\ Get(e, "is_priority", FALSE)
                           THEN "[HIGH PRIORITY] " ELSE ""
           IN  "- " \o priority \o e.name \o ": " \o Get(e, "description", "")]
    \o <<"">>

\* assemble_context: the lines of one entity section.
section_lines(header, entity_list, is_rules) ==
    IF entity_list = <<>> THEN <<>>
    ELSE <<header>>
         \o [n \in 1..Len(entity_list) |->
                LET e == entity_list[n]
                    priority == IF is_rules /\ Get(e, "is_priority", FALSE)
                                THEN "[HIGH PRIORITY] " ELSE ""
                IN  "- " \o priority \o e.name \o ": " \o Get(e, "description", "")]
         \o <<"">>

\* context_parts without the world block when there is no entity section.
context_parts_entities_only(entities, info) ==
    LET sections ==
            section_lines("=== ITEMS ===", Get(entities, "items", <<>>), FALSE)
            \o section_lines("=== ABILITIES ===", Get(entities, "abilities", <<>>), FALSE)
            \o section_lines("=== LOCATIONS ===", Get(entities, "locations", <<>>), FALSE)
            \o section_lines("=== NPCs ===", Get(entities, "npcs", <<>>), FALSE)
            \o section_lines("=== RULES ===", Get(entities, "rules", <<>>), TRUE)
    IN  IF sections = <<>> THEN <<>>
        ELSE << "=== WORLD SETTING ===",
                "Name: " \o Get(info, "name", "Unknown"),
                "Tone: " \o Get(info, "tone", "neutral"),
                "Setting: " \o Get(info, "setting", ""),
                "Description: " \o Get(info, "description", ""),
                "" >>
             \o sections

\* context_parts with a section for organizations as well.
context_parts_with_organizations(entities, info) ==
    << "=== WORLD SETTING ===",
       "Name: " \o Get(info, "name", "Unknown"),
       "Tone: " \o Get(info, "tone", "neutral"),
       "Setting: " \o Get(info, "setting", ""),
       "Description: " \o Get(info, "description", ""),
       "" >>
    \o section_lines("=== ITEMS ===", Get(entities, "items", <<>>), FALSE)
    \o section_lines("=== ABILITIES ===", Get(entities, "abilities", <<>>), FALSE)
    \o section_lines("=== LOCATIONS ===", Get(entities, "locations", <<>>), FALSE)
    \o section_lines("=== NPCs ===", Get(entities, "npcs", <<>>), FALSE)
    \o section_lines("=== ORGANIZATIONS ===", Get(entities, "organizations", <<>>), FALSE)
    \o section_lines("=== RULES ===", Get(entities, "rules", <<>>), TRUE)

\* assemble_context: context_parts.
context_parts(entities, info) ==
    << "=== WORLD SETTING ===",
       "Name: " \o Get(info, "name", "Unknown"),
       "Tone: " \o Get(info, "tone", "neutral"),
       "Setting: " \o Get(info, "setting", ""),
       "Description: " \o Get(info, "description", ""),
       "" >>
    \o section_lines("=== ITEMS ===", Get(entities, "items", <<>>), FALSE)
    \o section_lines("=== ABILITIES ===", Get(entities, "abilities", <<>>), FALSE)
    \o section_lines("=== LOCATIONS ===", Get(entities, "locations", <<>>), FALSE)
    \o section_lines("=== NPCs ===", Get(entities, "npcs", <<>>), FALSE)
    \o section_lines("=== RULES ===", Get(entities, "rules", <<>>), TRUE)

\* assemble_context with context_parts kept on the simulator instead of in a
\* local: the parts of the earlier calls are still in it.
assemble_context_accumulating(entities, info) ==
    Join((IF calls # <<>> /\ calls[Len(calls)].outcome # <<>>
          THEN Split(calls[Len(calls)].outcome[1]) ELSE <<>>)
         \o context_parts(entities, info))

assemble_context(entities, info) == Join(context_parts(entities, info))

\* assemble_context, lines 136-165: item['name'] raises KeyError for an
\* entity of a rendered category that has no name.
missing_name(entities) ==
    \E c \in {"items", "abilities", "locations", "npcs", "rules"} :
        \E e \in Range(Get(entities, c, <<>>)) : "name" \notin DOMAIN e

\* generate_dm_response: the fixed system prompt.
system_prompt ==
    "You are an experienced and objective game master for a tabletop role-playing game."
    \o "\n\nDM Guidelines:"
    \o "\n- Acknowledge player actions with logical consequences"
    \o "\n- Provide immersive, vivid descriptions"
    \o "\n- Avoid describing player emotions (only environmental effects)"
    \o "\n- Use objective narration without meta-commentary"
    \o "\n- Refer to unknown entities descriptively, not by name"
    \o "\n- Proactively advance the story to decision points"

\* generate_dm_response: user_prompt.
user_prompt(ctx, player_message) ==
    ctx \o "\n\nPlayer Action: \"" \o player_message
        \o "\"\n\nGenerate an engaging DM response based on the world context and player action."

\* A variant of chat_params whose system prompt names the strategy.
chat_params_strategy_note(ctx, player_message, temperature) ==
    [model |-> "gpt-4.1",
     messages |-> << [role |-> "system",
                      content |-> system_prompt \o "\nStrategy: " \o args.mode],
                     [role |-> "user", content |-> user_prompt(ctx, player_message)] >>,
     temperature |-> temperature,
     max_tokens |-> 1000]

\* generate_dm_response: the chat.completions.create request.
chat_params(ctx, player_message, temperature) ==
    [model |-> "gpt-4.1",
     messages |-> << [role |-> "system", content |-> system_prompt],
                     [role |-> "user", content |-> user_prompt(ctx, player_message)] >>,
     temperature |-> temperature,
     max_tokens |-> 1000]

\* A variant of generation_result whose latency runs from the start of the
\* invocation.
generation_result_whole_run(text, usage, start_time, end_time) ==
    [response_text |-> text,
     input_tokens |-> usage.prompt_tokens,
     output_tokens |-> usage.completion_tokens,
     total_tokens |-> usage.total_tokens,
     latency |-> end_time,
     model |-> "gpt-4"]

\* generate_dm_response: the returned dict, given the response and the two
\* readings of time.time().
generation_result(text, usage, start_time, end_time) ==
    [response_text |-> text,
     input_tokens |-> usage.prompt_tokens,
     output_tokens |-> usage.completion_tokens,
     total_tokens |-> usage.total_tokens,
     latency |-> end_time - start_time,
     model |-> "gpt-4"]

\* A variant of after_generation that issues the request again after a failure.
after_generation_retry(answered) == IF answered THEN "done" ELSE "generate"

\* run_experiment catching the failure of the generation request and
\* ending without an error.
after_generation_swallowed(answered) == "done"

\* generate_dm_response and run_experiment do not catch a failure of the
\* generation request: the invocation ends, with the outcome or the exception.
after_generation(answered) == IF answered THEN "done" ELSE "raised"

\* A variant of entity_counts that counts the categories the context renders.
entity_counts_rendered(entities) ==
    [c \in DOMAIN entities |->
        IF c \in {"organizations", "taxonomies"} THEN 0 ELSE Len(entities[c])]

\* run_experiment: entity_counts.
entity_counts(entities) == [c \in DOMAIN entities |-> Len(entities[c])]

\* sum(entity_counts.values())
RECURSIVE SumValues(_, _)
SumValues(f, keys) ==
    IF keys = {} THEN 0
    ELSE LET c == CHOOSE x \in keys : TRUE
         IN  f[c] + SumValues(f, keys \ {c})

\* experiment_result with a token total that the simulator keeps across its
\* invocations: the tokens of the earlier generations are added.
experiment_result_running_total(a, ctx, entities, gen) ==
    [mode |-> a.mode,
     player_message |-> a.player_message,
     context |-> ctx,
     context_size_tokens |-> SplitLen(ctx),
     entity_counts |-> entity_counts(entities),
     total_entities_retrieved |->
        SumValues(entity_counts(entities), DOMAIN entities),
     response_text |-> gen.response_text,
     input_tokens |-> gen.input_tokens,
     output_tokens |-> gen.output_tokens,
     total_tokens |->
        gen.total_tokens
        + (IF calls # <<>> /\ calls[Len(calls)].op = "run_experiment"
              /\ calls[Len(calls)].outcome # <<>>
           THEN calls[Len(calls)].outcome[1].total_tokens ELSE 0),
     latency |-> gen.latency,
     temperature |-> a.temperature,
     top_k |-> a.top_k,
     similarity_threshold |-> a.similarity_threshold]

\* run_experiment: the returned dict.
experiment_result(a, ctx, entities, gen) ==
    [mode |-> a.mode,
     player_message |-> a.player_message,
     context |-> ctx,
     context_size_tokens |-> SplitLen(ctx),
     entity_counts |-> entity_counts(entities),
     total_entities_retrieved |->
        SumValues(entity_counts(entities), DOMAIN entities),
     response_text |-> gen.response_text,
     input_tokens |-> gen.input_tokens,
     output_tokens |-> gen.output_tokens,
     total_tokens |-> gen.total_tokens,
     latency |-> gen.latency,
     temperature |-> a.temperature,
     top_k |-> a.top_k,
     similarity_threshold |-> a.similarity_threshold]

-----------------------------------------------------------------------------
\* The state machine.

EmptyDict == [x \in {} |-> <<>>]
NoArgs ==
    [player_message |-> "", mode |-> "", top_k |-> 0,
     similarity_threshold |-> 0, temperature |-> 0]

\* The retrieval method the running invocation executes.
Retrieval ==
    IF op = "run_experiment"
    THEN CASE args.mode = "rag" -> "retrieve_with_rag"
           [] args.mode = "no_rag" -> "retrieve_all_entities"
           [] args.mode = "random" -> "retrieve_random_entities"
           [] OTHER -> ""
    ELSE op

\* One remote request, issued at time `at`, answered (or failed) at `done`.
Request(kind, target, params, at, done) ==
    [kind |-> kind, target |-> target, params |-> params, at |-> at, done |-> done]

\* The environment may make a store request fail.
MayFail == Len(warnings) < MaxFailures

\* The token usage the generation service reports: the words of the prompts
\* and of the completion.
Usage(messages, text) ==
    LET prompt == SplitLen(messages[1].content) + SplitLen(messages[2].content)
        completion == SplitLen(text)
    IN  [prompt_tokens |-> prompt, completion_tokens |-> completion,
         total_tokens |-> prompt + completion]

\* The parameter settings the callers run: the defaults of run_experiment
\* (the first message, threshold 0.65, temperature 0.8) with at most one of
\* them varied.
Settings ==
    {s \in Messages \X Thresholds \X Temperatures :
        Cardinality({n \in 1..3 :
            s[n] # <<"I attack the goblin", 65, 8>>[n]}) <= 1}

\* RAGSimulator(supabase, openai_client, world_id)
Init ==
    /\ world_id \in WorldIds
    /\ op = ""
    /\ pc = "idle"
    /\ args = NoArgs
    /\ world_info = EmptyDict
    /\ query_embedding = <<>>
    /\ all_entities = EmptyDict
    /\ results = EmptyDict
    /\ i = 1
    /\ context = ""
    /\ requests = <<>>
    /\ warnings = <<>>
    /\ now = 0
    /\ rng = -1
    /\ outcome = <<>>
    /\ error = ""
    /\ calls = <<>>
    /\ inserted = EmptyDict

\* run_experiment going on with an empty world record when the metadata read
\* fails.
RunExperiment_default_world(player_message, mode, top_k, similarity_threshold, temperature) ==
    /\ pc = "idle"
    /\ op' = "run_experiment"
    /\ args' = [player_message |-> player_message, mode |-> mode, top_k |-> top_k,
                similarity_threshold |-> similarity_threshold,
                temperature |-> temperature]
    /\ \E answered \in BOOLEAN :
         LET query == world_query(world_id)
             rows == Execute(query)
         IN  /\ now' = now + 1
             /\ requests' = Append(requests,
                    Request("select", query.table, query, now, now + 1))
             /\ world_info' = IF answered /\ Len(rows) = 1 THEN rows[1] ELSE EmptyDict
             /\ pc' = dispatch(mode)
             /\ error' = IF dispatch(mode) = "raised"
                         THEN "ValueError: Unknown mode: " \o mode
                         ELSE error
    /\ i' = 1
    /\ UNCHANGED <<inserted, calls, rng, world_id, query_embedding, all_entities, results, context,
                   warnings, outcome>>

\* run_experiment, lines 228-252: the metadata read and the choice of the
\* retrieval. single() raises unless exactly one row matches.
RunExperiment(player_message, mode, top_k, similarity_threshold, temperature) ==
    /\ pc = "idle"
    /\ op' = "run_experiment"
    /\ args' = [player_message |-> player_message, mode |-> mode, top_k |-> top_k,
                similarity_threshold |-> similarity_threshold,
                temperature |-> temperature]
    /\ \E answered \in BOOLEAN :
         LET query == world_query(world_id)
             rows == Execute(query)
         IN  /\ now' = now + 1
             /\ requests' = Append(requests,
                    Request("select", query.table, query, now, now + 1))
             /\ IF answered /\ Len(rows) = 1
                THEN /\ world_info' = rows[1]
                     /\ pc' = dispatch(mode)
                     /\ error' = IF dispatch(mode) = "raised"
                                 THEN "ValueError: Unknown mode: " \o mode
                                 ELSE error
                ELSE /\ world_info' = world_info
                     /\ pc' = "raised"
                     /\ error' = "APIError: worlds"
    /\ i' = 1
    /\ UNCHANGED <<inserted, calls, rng, world_id, query_embedding, all_entities, results, context,
                   warnings, outcome>>

\* generate_query_embedding, called by run_experiment in rag mode.
GenerateQueryEmbedding ==
    /\ pc = "embed"
    /\ \E answered \in BOOLEAN :
         /\ now' = now + 1
         /\ requests' = Append(requests,
                Request("embedding", "text-embedding-ada-002",
                        [input |-> args.player_message], now, now + 1))
         /\ IF answered
            THEN /\ query_embedding' = Embed(args.player_message)
                 /\ pc' = "rpc"
                 /\ error' = error
            ELSE /\ query_embedding' = query_embedding
                 /\ pc' = "raised"
                 /\ error' = "APIError: embeddings"
    /\ UNCHANGED <<inserted, calls, rng, world_id, op, args, world_info, all_entities, results, i,
                   context, warnings, outcome>>

\* A direct call of retrieve_all_entities().
RetrieveAllEntities ==
    /\ pc = "idle"
    /\ op' = "retrieve_all_entities"
    /\ pc' = "select"
    /\ UNCHANGED <<inserted, calls, rng, world_id, args, world_info, query_embedding, all_entities,
                   results, i, context, requests, warnings, now, outcome, error>>

\* A direct call of retrieve_random_entities(k).
RetrieveRandomEntities(k) ==
    /\ pc = "idle"
    /\ op' = "retrieve_random_entities"
    /\ args' = [args EXCEPT !.top_k = k]
    /\ pc' = "select"
    /\ UNCHANGED <<inserted, calls, rng, world_id, world_info, query_embedding, all_entities,
                   results, i, context, requests, warnings, now, outcome, error>>

\* A direct call of retrieve_with_rag(query_embedding, top_k, similarity_threshold).
RetrieveWithRag(embedding, top_k, similarity_threshold) ==
    /\ pc = "idle"
    /\ op' = "retrieve_with_rag"
    /\ args' = [args EXCEPT !.top_k = top_k,
                            !.similarity_threshold = similarity_threshold]
    /\ query_embedding' = embedding
    /\ pc' = "rpc"
    /\ UNCHANGED <<inserted, calls, rng, world_id, world_info, all_entities, results, i, context,
                   requests, warnings, now, outcome, error>>

\* retrieve_all_entities without its try: a failed read ends the retrieval
\* with the error of the store.
SelectStep_unguarded ==
    /\ pc = "select"
    /\ LET entity_type == entity_types[i]
           query == entity_query(entity_type, world_id)
           last == i = Len(entity_types)
       IN  /\ requests' = Append(requests,
                  Request("select", query.table, query, now, now + 1))
           /\ \E answered \in BOOLEAN :
                /\ answered \/ MayFail
                /\ \E data \in (IF answered THEN Answers(Execute(query)) ELSE {<<>>}) :
                     LET got == IF answered
                                THEN Put(results, entity_type, DataOrEmpty(data))
                                ELSE results
                     IN  IF answered /\ last /\ Retrieval = "retrieve_random_entities"
                         THEN /\ all_entities' = got
                              /\ results' = EmptyDict
                              /\ rng' \in IF rng < 0 THEN 0..MaxSeed ELSE {rng}
                         ELSE /\ all_entities' = all_entities
                              /\ results' = got
                              /\ rng' = rng
                /\ warnings' = IF answered THEN warnings
                               ELSE Append(warnings, entity_type)
                /\ i' = IF last \/ ~answered THEN 1 ELSE i + 1
                /\ pc' = IF ~answered THEN "raised"
                         ELSE IF ~last THEN "select"
                         ELSE IF Retrieval = "retrieve_random_entities" THEN "sample"
                         ELSE "retrieved"
                /\ error' = IF answered THEN error ELSE "APIError: " \o entity_type
    /\ now' = now + 1
    /\ UNCHANGED <<inserted, calls, world_id, op, args, world_info, query_embedding, context,
                   outcome>>

\* retrieve_all_entities, lines 81-93: one iteration of the loop. After the
\* last one the dict is returned: to retrieve_random_entities (line 99), which
\* starts its own dict, or to the caller.
SelectStep ==
    /\ pc = "select"
    /\ LET entity_type == entity_types[i]
           query == entity_query(entity_type, world_id)
           last == i = Len(entity_types)
       IN  /\ requests' = Append(requests,
                  Request("select", query.table, query, now, now + 1))
           /\ \E answered \in BOOLEAN :
                /\ answered \/ MayFail
                /\ \E data \in (IF answered THEN Answers(Execute(query)) ELSE {<<>>}) :
                     LET got == IF answered
                                THEN Put(results, entity_type, DataOrEmpty(data))
                                ELSE except_result(results, entity_type)
                     IN  IF last /\ Retrieval = "retrieve_random_entities"
                         THEN /\ all_entities' = got
                              /\ results' = EmptyDict
                              /\ rng' \in IF rng < 0 THEN 0..MaxSeed ELSE {rng}
                         ELSE /\ all_entities' = all_entities
                              /\ results' = got
                              /\ rng' = rng
                /\ warnings' = IF answered THEN warnings
                               ELSE Append(warnings, entity_type)
           /\ i' = IF last THEN 1 ELSE i + 1
           /\ pc' = IF ~last THEN "select"
                    ELSE IF Retrieval = "retrieve_random_entities" THEN "sample"
                    ELSE "retrieved"
    /\ now' = now + 1
    /\ UNCHANGED <<inserted, calls, world_id, op, args, world_info, query_embedding, context,
                   outcome, error>>

\* retrieve_random_entities, lines 102-112: the loop over all_entities.items(),
\* whose order is the insertion order. It computes the dict of the first n
\* entity types with the generator starting in state seed; <<>> when a sample
\* raises.
RECURSIVE sample_loop(_, _, _, _)
sample_loop(entities_by_type, k, seed, n) ==
    IF n = 0 THEN <<[results |-> EmptyDict, rng |-> seed]>>
    ELSE LET before == sample_loop(entities_by_type, k, seed, n - 1)
             entity_type == entity_types[n]
             entities == entities_by_type[entity_type]
             size == sample_size(entity_type, entities, k)
         IN  IF before = <<>> THEN <<>>
             ELSE IF entities # <<>> /\ sample_raises(entities, size) THEN <<>>
             ELSE <<[results |->
                        Put(before[1].results, entity_type,
                            sampled(entity_type, entities, k, before[1].rng)),
                     rng |-> IF entities = <<>> THEN before[1].rng
                             ELSE AdvanceRng(before[1].rng, size)]>>

\* retrieve_random_entities, lines 101-112: the sampling, which issues no
\* request.
SampleStep ==
    /\ pc = "sample"
    /\ LET sampling == sample_loop(all_entities, args.top_k, rng, Len(entity_types))
       IN  IF sampling = <<>>
           THEN /\ pc' = "raised"
                /\ error' = "ValueError: Sample larger than population or is negative"
                /\ UNCHANGED <<results, rng>>
           ELSE /\ results' = sampling[1].results
                /\ rng' = sampling[1].rng
                /\ pc' = "retrieved"
                /\ error' = error
    /\ UNCHANGED <<inserted, calls, world_id, op, args, world_info, query_embedding, all_entities,
                   i, context, requests, warnings, now, outcome>>

\* retrieve_with_rag, lines 53-72: one iteration of the loop. The store
\* rejects a negative match_count.
RpcStep ==
    /\ pc = "rpc"
    /\ LET entity_type == entity_types[i]
           params == rpc_params(entity_type, world_id, query_embedding,
                                args.top_k, args.similarity_threshold)
           last == i = Len(entity_types)
       IN  /\ requests' = Append(requests,
                  Request("rpc", "match_" \o entity_type, params, now, now + 1))
           /\ \E answered \in BOOLEAN :
                /\ IF params.match_count < 0 THEN ~answered
                   ELSE answered \/ MayFail
                /\ \E data \in (IF answered THEN Answers(Match(entity_type, params))
                                ELSE {<<>>}) :
                     results' = IF answered
                                THEN Put(results, entity_type, DataOrEmpty(data))
                                ELSE except_result(results, entity_type)
                /\ warnings' = IF answered THEN warnings
                               ELSE Append(warnings, entity_type)
           /\ i' = IF last THEN 1 ELSE i + 1
           /\ pc' = IF last THEN "retrieved" ELSE "rpc"
    /\ now' = now + 1
    /\ UNCHANGED <<inserted, calls, rng, world_id, op, args, world_info, query_embedding, all_entities,
                   context, outcome, error>>

\* A directly called retrieval method returns its dict.
Return ==
    /\ pc = "retrieved"
    /\ op # "run_experiment"
    /\ outcome' = <<results>>
    /\ pc' = "returned"
    /\ UNCHANGED <<inserted, calls, rng, world_id, op, args, world_info, query_embedding, all_entities,
                   results, i, context, requests, warnings, now, error>>

\* run_experiment, line 255: context = assemble_context(entities, world_info).
AssembleContext ==
    /\ pc = "retrieved"
    /\ op = "run_experiment"
    /\ context' = assemble_context(results, world_info)
    /\ now' = now + 1
    /\ pc' = "generate"
    /\ UNCHANGED <<inserted, calls, rng, world_id, op, args, world_info, query_embedding, all_entities,
                   results, i, requests, warnings, outcome, error>>

\* generate_dm_response (lines 195-216) and the rest of run_experiment
\* (lines 264-288).
GenerateDmResponse ==
    /\ pc = "generate"
    /\ LET start_time == now
           params == chat_params(context, args.player_message, args.temperature)
           text == Completion(params.messages)
           usage == Usage(params.messages, text)
       IN  \E d \in 1..MaxDelay, answered \in BOOLEAN :
         LET gen == generation_result(text, usage, start_time, now + d)
         IN  /\ requests' = Append(requests,
                    Request("chat", "gpt-4.1", params, now, now + d))
             /\ now' = now + d
             /\ pc' = after_generation(answered)
             /\ IF answered
                THEN /\ outcome' = <<experiment_result(args, context, results, gen)>>
                     /\ error' = error
                ELSE /\ outcome' = outcome
                     /\ error' = IF after_generation(answered) = "raised"
                                 THEN "APIError: chat.completions" ELSE error
    /\ UNCHANGED <<inserted, calls, rng, world_id, op, args, world_info, query_embedding, all_entities,
                   results, i, context, warnings>>

Next ==
    \/ \E s \in Settings, mode \in Modes, k \in TopKs :
          RunExperiment(s[1], mode, k, s[2], s[3])
    \/ GenerateQueryEmbedding
    \/ RetrieveAllEntities
    \/ \E k \in TopKs : RetrieveRandomEntities(k)
    \/ \E m \in Messages, k \in TopKs, t \in Thresholds :
          RetrieveWithRag(Embed(m), k, t)
    \/ SelectStep
    \/ SampleStep
    \/ RpcStep
    \/ Return
    \/ AssembleContext
    \/ GenerateDmResponse

Spec == Init /\ [][Next]_vars

-----------------------------------------------------------------------------
\* Direct calls of assemble_context, as the inspection script makes them: one
\* simulator, several calls one after the other.

\* The number of invocations the caller makes on one simulator.
MaxCalls == 2

\* A dict literal: the (key, value) pairs in insertion order. Lookups by key
\* do not see the order.
Dict(pairs) ==
    [k \in {pairs[n][1] : n \in 1..Len(pairs)} |->
        pairs[CHOOSE n \in 1..Len(pairs) :
                 /\ pairs[n][1] = k
                 /\ \A m \in (n + 1)..Len(pairs) : pairs[m][1] # k][2]]

\* The keys of a dict literal, in insertion order.
Keys(pairs) == [n \in 1..Len(pairs) |-> pairs[n][1]]

ScenarioWorld ==
    [name |-> "Test", tone |-> "grim", setting |-> "frontier",
     description |-> "A harsh land"]
Sword == [name |-> "Sword", description |-> "A sharp blade"]
Initiative ==
    [name |-> "Initiative", description |-> "Roll first", is_priority |-> TRUE]

\* Entities of category c as a caller may pass them: one with the priority
\* flag set, one without a description and without the flag, one with the
\* flag cleared.
Sample(c) ==
    << [name |-> c \o "-a", description |-> "first of " \o c, is_priority |-> TRUE],
       [name |-> c \o "-b"],
       [name |-> c \o "-c", description |-> "third of " \o c, is_priority |-> FALSE] >>

Reverse(s) == [n \in 1..Len(s) |-> s[Len(s) + 1 - n]]

\* What a retrieval hands to assemble_context for world w: the seven keys in
\* the order of entity_types, each with the rows of the world.
RetrievedFrom(w) ==
    [n \in 1..Len(entity_types) |->
        <<entity_types[n], Execute(entity_query(entity_types[n], w))>>]

\* The `entities` arguments of the calls.
ContextMappings ==
    { <<>>,
      << <<"items", <<Sword>>>>, <<"rules", <<Initiative>>>> >>,
      << <<"rules", <<Initiative>>>>, <<"items", <<Sword>>>> >>,
      << <<"items", <<>>>>, <<"rules", <<Initiative>>>> >>,
      [n \in 1..Len(entity_types) |-> <<entity_types[n], <<>>>>],
      Reverse([n \in 1..Len(entity_types) |-> <<entity_types[n], Sample(entity_types[n])>>]) }
    \cup { << <<c, Sample(c)>> >> : c \in Range(entity_types) }
    \cup { Reverse(SelectSeq(
               [n \in 1..Len(entity_types) |-> <<entity_types[n], Sample(entity_types[n])>>],
               LAMBDA p : p[1] # c)) : c \in Range(entity_types) }
    \cup { << <<"items", <<Sword>>>>, <<c, <<[description |-> "nameless"]>>>> >> :
               c \in {"organizations", "rules"} }
    \cup { RetrievedFrom(w) : w \in Worlds }

\* The `world_info` arguments of the calls.
WorldInfos ==
    {ScenarioWorld, EmptyDict, [name |-> "Test"],
     [tone |-> "grim", setting |-> "frontier"]}
    \cup {WorldsTable[n] : n \in 1..Len(WorldsTable)}

ContextCalls ==
    {[entities |-> m, world_info |-> ScenarioWorld] : m \in ContextMappings}
    \cup {[entities |-> << <<"items", <<Sword>>>>, <<"rules", <<Initiative>>>> >>,
           world_info |-> w] : w \in WorldInfos}
    \cup {[entities |-> m, world_info |-> w] :
              m \in {<<>>, [n \in 1..Len(entity_types) |-> <<entity_types[n], <<>>>>]},
              w \in WorldInfos}

\* simulator.assemble_context(entities, world_info): the whole call.
AssembleContextCall(entities, info) ==
    /\ pc = "idle"
    /\ op' = "assemble_context"
    /\ args' = [entities |-> entities, world_info |-> info]
    /\ IF missing_name(Dict(entities))
       THEN /\ pc' = "raised"
            /\ error' = "KeyError: 'name'"
            /\ UNCHANGED <<context, outcome>>
       ELSE /\ context' = assemble_context(Dict(entities), info)
            /\ outcome' = <<context'>>
            /\ pc' = "returned"
            /\ error' = error
    /\ UNCHANGED <<inserted, calls, rng, world_id, world_info, query_embedding, all_entities,
                   results, i, requests, warnings, now>>

\* What the caller has seen of the invocation that ended: the call, its
\* result or exception, the warnings printed and the time each of its remote
\* requests took.
CallRecord ==
    [op |-> op, args |-> args, outcome |-> outcome, error |-> error,
     warnings |-> warnings,
     durations |-> [n \in 1..Len(requests) |-> requests[n].done - requests[n].at]]

\* The caller takes the result (or the exception) and goes on to its next
\* call on the same simulator. The locals of the finished invocation are
\* gone; the simulator's fields and the random generator stay.
Continue ==
    /\ pc \in {"returned", "done", "raised"}
    /\ Len(calls) + 1 < MaxCalls
    /\ calls' = Append(calls, CallRecord)
    /\ op' = ""
    /\ pc' = "idle"
    /\ args' = NoArgs
    /\ world_info' = EmptyDict
    /\ query_embedding' = <<>>
    /\ all_entities' = EmptyDict
    /\ results' = EmptyDict
    /\ i' = 1
    /\ context' = ""
    /\ requests' = <<>>
    /\ warnings' = <<>>
    /\ outcome' = <<>>
    /\ error' = ""
    /\ UNCHANGED <<inserted, world_id, now, rng>>

ContextNext ==
    \/ \E c \in ContextCalls : AssembleContextCall(c.entities, c.world_info)
    \/ Continue

\* The inspection script builds one simulator, for its WORLD_ID.
ContextInit == Init /\ world_id = "w2"

ContextSpec == ContextInit /\ [][ContextNext]_vars

-----------------------------------------------------------------------------
\* Several invocations on one simulator, as the latency script and the
\* inspection script make them: the three strategies one after the other,
\* through run_experiment or through the retrieval methods and
\* assemble_context, for one player message and one world.

\* The message, threshold and temperature of the session's invocations.
SessionSetting == <<"I attack the goblin", 65, 8>>

SessionInit == Init /\ world_id = "w2"

\* In a session every entity read is answered: no warning is printed.
StoreAnswers == warnings' = <<>>

SessionNext ==
    /\ \/ \E mode \in {"no_rag", "random", "rag"} :
             RunExperiment(SessionSetting[1], mode, 1, SessionSetting[2],
                           SessionSetting[3])
       \/ GenerateQueryEmbedding
       \/ RetrieveAllEntities
       \/ RetrieveRandomEntities(1)
       \/ RetrieveWithRag(Embed(SessionSetting[1]), 1, SessionSetting[2])
       \/ SelectStep
       \/ SampleStep
       \/ RpcStep
       \/ Return
       \/ AssembleContext
       \/ GenerateDmResponse
       \/ AssembleContextCall(<< <<"items", <<Sword>>>>, <<"rules", <<Initiative>>>> >>,
                              ScenarioWorld)
       \/ Continue
    /\ StoreAnswers

SessionSpec == SessionInit /\ [][SessionNext]_vars

-----------------------------------------------------------------------------
\* An ablation: two invocations on one simulator, the first with the
\* parameters of the baseline, the second with one or more of top_k,
\* similarity_threshold and temperature varied.

\* The parameters of the baseline: top_k, similarity_threshold, temperature.
Baseline == <<MaxTopK, SessionSetting[2], SessionSetting[3]>>

\* The top_k values of the ablation.
AblationTopKs == {1, MaxTopK}

\* What the caller can observe of the invocation that ended, and what it
\* did on the way: the requests it issued (kind, target and parameters), the
\* mapping it retrieved and the context it assembled.
RunRecord ==
    [op |-> op, args |-> args, outcome |-> outcome, error |-> error,
     warnings |-> warnings,
     durations |-> [n \in 1..Len(requests) |-> requests[n].done - requests[n].at],
     requests |-> [n \in 1..Len(requests) |->
                      [kind |-> requests[n].kind, target |-> requests[n].target,
                       params |-> requests[n].params]],
     entities |-> results,
     context |-> context]

\* The caller goes on from the first invocation to the second, on the same
\* simulator.
NextRun ==
    /\ pc \in {"returned", "done", "raised"}
    /\ calls = <<>>
    /\ calls' = <<RunRecord>>
    /\ op' = ""
    /\ pc' = "idle"
    /\ args' = NoArgs
    /\ world_info' = EmptyDict
    /\ query_embedding' = <<>>
    /\ all_entities' = EmptyDict
    /\ results' = EmptyDict
    /\ i' = 1
    /\ context' = ""
    /\ requests' = <<>>
    /\ warnings' = <<>>
    /\ outcome' = <<>>
    /\ error' = ""
    /\ UNCHANGED <<inserted, world_id, now, rng>>

\* In an ablation the store answers every entity read but, possibly, the
\* read of the npcs.
AblationAnswers == Range(warnings') \subseteq {"npcs"}

AblationNext ==
    /\ \/ \E mode \in {"no_rag", "random", "rag"}, k \in AblationTopKs,
             t \in Thresholds, temperature \in Temperatures :
             /\ calls = <<>> => <<k, t, temperature>> = Baseline
             /\ RunExperiment(SessionSetting[1], mode, k, t, temperature)
       \/ GenerateQueryEmbedding
       \/ calls = <<>> /\ RetrieveAllEntities
       \/ SelectStep
       \/ SampleStep
       \/ RpcStep
       \/ Return
       \/ AssembleContext
       \/ GenerateDmResponse
       \/ NextRun
    /\ AblationAnswers

AblationSpec == SessionInit /\ [][AblationNext]_vars

-----------------------------------------------------------------------------
\* The seeding scripts add_entities.py and add_rules_only.py: each add_*
\* function loops over a hard-coded list and, for every entity, asks the
\* embedding service for a vector, inserts the entity into its table and
\* sleeps. Nothing is caught: a failed request ends the script.

\* The number of entities of each hard-coded list the model keeps (the lists
\* of the scripts have fifty).
MaxList == 3

\* time.sleep(0.2), in tenths of a second.
SeedDelay == 2

\* The heads of the lists of add_entities.py.
SeedItems ==
    << [name |-> "Healing Potion",
        description |-> "A red potion that restores 50 HP when consumed"],
       [name |-> "Mana Potion",
        description |-> "A blue potion that restores 30 mana points"],
       [name |-> "Antidote", description |-> "Cures poison and disease effects"],
       [name |-> "Steel Armor",
        description |-> "Heavy armor that provides +5 defense"] >>
SeedAbilities ==
    << [name |-> "Stealth", description |-> "Move silently and hide in shadows"],
       [name |-> "Lockpicking", description |-> "Open locks without keys"],
       [name |-> "Archery", description |-> "Skilled with bows and crossbows"],
       [name |-> "Two-Handed Combat",
        description |-> "Wield large weapons effectively"] >>
SeedNpcs ==
    << [name |-> "Marcus the Blacksmith",
        description |-> "A burly dwarf who forges the finest weapons in town"],
       [name |-> "Elara the Herbalist",
        description |-> "An elderly elf who knows all healing herbs"],
       [name |-> "Captain Thorne",
        description |-> "Leader of the city guard, strict but fair"],
       [name |-> "Mysterious Hooded Figure",
        description |-> "A shadowy person who deals in secrets"] >>
SeedRules ==
    << [name |-> "Combat Initiative",
        description |-> "At the start of combat, all participants roll for initiative to determine turn order",
        is_high_priority |-> TRUE],
       [name |-> "Attack Rolls",
        description |-> "To hit a target, roll 1d20 + attack bonus vs target's armor class",
        is_high_priority |-> TRUE],
       [name |-> "Damage Calculation",
        description |-> "On successful hit, roll weapon damage dice and add relevant modifiers",
        is_high_priority |-> TRUE],
       [name |-> "Death and Dying",
        description |-> "At 0 HP, character falls unconscious and makes death saving throws",
        is_high_priority |-> TRUE] >>

\* The head of the list of add_rules_only.py: the same rules without the flag.
SeedRulesOnly ==
    [n \in 1..Len(SeedRules) |->
        [name |-> SeedRules[n].name, description |-> SeedRules[n].description]]

\* The functions add_entities.py runs, in the order of its main block.
MainOrder == <<"add_items", "add_abilities", "add_npcs", "add_rules">>

\* The seeding functions: those of add_entities.py and add_rules of
\* add_rules_only.py.
SeedFunctions == Range(MainOrder) \cup {"add_rules_only.add_rules"}

\* The list a seeding function loops over.
seed_list(f) ==
    LET whole == CASE f = "add_items" -> SeedItems
                   [] f = "add_abilities" -> SeedAbilities
                   [] f = "add_npcs" -> SeedNpcs
                   [] f = "add_rules" -> SeedRules
                   [] f = "add_rules_only.add_rules" -> SeedRulesOnly
    IN  SubSeq(whole, 1, Min(MaxList, Len(whole)))

\* The table a seeding function inserts into.
seed_table(f) ==
    CASE f = "add_items" -> "items"
      [] f = "add_abilities" -> "abilities"
      [] f = "add_npcs" -> "npcs"
      [] f = "add_rules" -> "rules"
      [] f = "add_rules_only.add_rules" -> "rules"

\* text = f"{item['name']} {item['description']}"
seed_text(entity) == entity.name \o " " \o entity.description

\* The row a seeding function inserts.
seed_data(entity, embedding, wid) ==
    [world_id |-> wid, name |-> entity.name,
     description |-> entity.description, embedding |-> embedding]

\* A seeding loop that goes on with the next entity when a request fails.
after_request_skipping(answered, next) == IF answered THEN next ELSE "seed_sleep"

\* A seeding function has no try: it goes on after an answered request and
\* ends with the exception of a failed one.
after_request(answered, next) == IF answered THEN next ELSE "raised"

\* A script starts its first seeding function.
RunScript(f) ==
    /\ pc = "idle"
    /\ calls = <<>>
    /\ op' = f
    /\ pc' = "seed_embed"
    /\ i' = 1
    /\ UNCHANGED <<inserted, calls, rng, world_id, args, world_info, query_embedding,
                   all_entities, results, context, requests, warnings, now,
                   outcome, error>>

\* generate_embedding(text): the first statements of the loop body.
GenerateEmbedding ==
    /\ pc = "seed_embed"
    /\ \E answered \in BOOLEAN :
         LET text == seed_text(seed_list(op)[i])
         IN  /\ requests' = Append(requests,
                    Request("embedding", "text-embedding-ada-002",
                            [input |-> text], now, now + 1))
             /\ now' = now + 1
             /\ pc' = after_request(answered, "seed_insert")
             /\ query_embedding' = IF answered THEN Embed(text) ELSE query_embedding
             /\ error' = IF after_request(answered, "seed_insert") = "raised"
                         THEN "APIError: embeddings" ELSE error
    /\ UNCHANGED <<inserted, calls, rng, world_id, op, args, world_info, all_entities,
                   results, i, context, warnings, outcome>>

\* supabase.table(...).insert(data).execute(): a failed insert adds no row.
Insert ==
    /\ pc = "seed_insert"
    /\ \E answered \in BOOLEAN :
         LET table == seed_table(op)
             data == seed_data(seed_list(op)[i], query_embedding, world_id)
         IN  /\ requests' = Append(requests,
                    Request("insert", table, data, now, now + 1))
             /\ now' = now + 1
             /\ inserted' = IF answered
                            THEN Put(inserted, table,
                                     Append(Get(inserted, table, <<>>), data))
                            ELSE inserted
             /\ pc' = after_request(answered, "seed_sleep")
             /\ error' = IF after_request(answered, "seed_sleep") = "raised"
                         THEN "APIError: " \o table ELSE error
    /\ UNCHANGED <<calls, rng, world_id, op, args, world_info, query_embedding,
                   all_entities, results, i, context, warnings, outcome>>

\* time.sleep(0.2) and the end of the loop body: the next entity, or the
\* return of the function after the last one.
Sleep ==
    /\ pc = "seed_sleep"
    /\ now' = now + SeedDelay
    /\ IF i < Len(seed_list(op))
       THEN /\ i' = i + 1
            /\ pc' = "seed_embed"
       ELSE /\ i' = i
            /\ pc' = "returned"
    /\ UNCHANGED <<inserted, calls, rng, world_id, op, args, world_info, query_embedding,
                   all_entities, results, context, requests, warnings, outcome,
                   error>>

\* The main block of add_entities.py goes on to its next function.
NextFunction ==
    /\ pc = "returned"
    /\ \E n \in 1..(Len(MainOrder) - 1) :
         /\ op = MainOrder[n]
         /\ op' = MainOrder[n + 1]
    /\ calls' = Append(calls, CallRecord)
    /\ pc' = "seed_embed"
    /\ i' = 1
    /\ requests' = <<>>
    /\ query_embedding' = <<>>
    /\ UNCHANGED <<inserted, rng, world_id, args, world_info, all_entities, results,
                   context, warnings, now, outcome, error>>

SeedNext ==
    \/ \E f \in {MainOrder[1], "add_rules_only.add_rules"} : RunScript(f)
    \/ GenerateEmbedding
    \/ Insert
    \/ Sleep
    \/ NextFunction

\* The scripts look up the id of the test world before they define their
\* functions.
SeedInit == Init /\ world_id \in Worlds

SeedSpec == SeedInit /\ [][SeedNext]_vars

-----------------------------------------------------------------------------
\* The metrics helpers of experiments/utils/metrics.py. Numbers are integers:
\* token counts as they are, costs in units of 0.0000001 dollar, and the
\* result of a division rounded down. An optional value is the result of an
\* expression that may raise: <<>> when it raised.

\* The largest token count of the inputs.
MaxTokens == 5
\* The longest list of results given to aggregate_metrics.
MaxResults == 2

\* PRICING, per token instead of per thousand tokens.
PRICING == [input |-> 300, output |-> 600, embedding |-> 1]

\* a / b: ZeroDivisionError for b = 0.
Divide(a, b) == IF b = 0 THEN <<>> ELSE <<a \div b>>

\* calculate_cost(input_tokens, output_tokens, embedding_tokens)
calculate_cost(input_tokens, output_tokens, embedding_tokens) ==
    input_tokens * PRICING.input + output_tokens * PRICING.output
        + embedding_tokens * PRICING.embedding

\* calculate_context_efficiency without its test for zero.
calculate_context_efficiency_unguarded(rag_tokens, full_tokens) ==
    Divide((full_tokens - rag_tokens) * 100, full_tokens)

\* calculate_context_efficiency(rag_tokens, full_tokens), in percent.
calculate_context_efficiency(rag_tokens, full_tokens) ==
    IF full_tokens = 0 THEN <<0>>
    ELSE Divide((full_tokens - rag_tokens) * 100, full_tokens)

\* calculate_cost_savings(no_rag_cost, rag_cost)
calculate_cost_savings(no_rag_cost, rag_cost) ==
    LET savings_amount == no_rag_cost - rag_cost
        savings_percentage == IF no_rag_cost > 0
                              THEN Divide(savings_amount * 100, no_rag_cost)
                              ELSE <<0>>
    IN  IF savings_percentage = <<>> THEN <<>>
        ELSE <<[savings_amount |-> savings_amount,
                savings_percentage |-> savings_percentage[1],
                no_rag_cost |-> no_rag_cost,
                rag_cost |-> rag_cost]>>

\* np.sum(values)
RECURSIVE Sum(_)
Sum(values) == IF values = <<>> THEN 0 ELSE Head(values) + Sum(Tail(values))

\* np.mean, np.std, np.min and np.max of a list: np.min raises ValueError for
\* an empty one.
Stats(values) ==
    IF values = <<>> THEN <<>>
    ELSE LET n == Len(values)
             low == CHOOSE x \in Range(values) : \A y \in Range(values) : x <= y
             high == CHOOSE x \in Range(values) : \A y \in Range(values) : x >= y
             variance ==
                 (n * Sum([m \in 1..n |-> values[m] * values[m]])
                     - Sum(values) * Sum(values)) \div (n * n)
         IN  <<[mean |-> Sum(values) \div n,
                std |-> CHOOSE r \in 0..(high - low) :
                           r * r <= variance /\ (r + 1) * (r + 1) > variance,
                min |-> low,
                max |-> high]>>

\* aggregate_metrics(results); the results have the token and latency keys.
aggregate_metrics(result_list) ==
    IF result_list = <<>> THEN <<EmptyDict>>
    ELSE LET column(key) == [n \in 1..Len(result_list) |-> result_list[n][key]]
             context_sizes ==
                 [n \in 1..Len(result_list) |-> Get(result_list[n], "context_size_tokens", 0)]
             costs ==
                 [n \in 1..Len(result_list) |->
                     calculate_cost(result_list[n].input_tokens,
                                    result_list[n].output_tokens, 0)]
             stats == <<Stats(column("input_tokens")), Stats(column("output_tokens")),
                        Stats(column("total_tokens")), Stats(column("latency")),
                        Stats(context_sizes), Stats(costs)>>
         IN  IF \E n \in 1..Len(stats) : stats[n] = <<>> THEN <<>>
             ELSE <<[count |-> Len(result_list),
                     input_tokens |-> stats[1][1],
                     output_tokens |-> stats[2][1],
                     total_tokens |-> stats[3][1],
                     latency |-> stats[4][1],
                     context_size |-> stats[5][1],
                     cost |-> [mean |-> stats[6][1].mean, std |-> stats[6][1].std,
                               min |-> stats[6][1].min, max |-> stats[6][1].max,
                               total |-> Sum(costs)]]>>

\* The token counts, the costs and the results the helpers are called with.
TokenCounts == 0..MaxTokens
Costs ==
    {-PRICING.input}
    \cup {calculate_cost(a, b, 0) : a \in {0, 1, MaxTokens}, b \in {0, 1, MaxTokens}}
MetricResults ==
    {[input_tokens |-> a, output_tokens |-> 1, total_tokens |-> a + 1,
      latency |-> l, context_size_tokens |-> a] :
        a \in {0, MaxTokens}, l \in {1, MaxDelay}}
    \cup {[input_tokens |-> 2, output_tokens |-> 0, total_tokens |-> 2, latency |-> 1]}

\* The lists of at most n results.
RECURSIVE ResultLists(_)
ResultLists(n) ==
    IF n = 0 THEN {<<>>}
    ELSE ResultLists(n - 1)
         \cup {Append(l, r) : l \in {x \in ResultLists(n - 1) : Len(x) = n - 1},
                              r \in MetricResults}

\* A call of a helper: it returns the value, or raises.
Helper(name, arguments, result) ==
    /\ pc = "idle"
    /\ op' = name
    /\ args' = arguments
    /\ IF result = <<>>
       THEN /\ pc' = "raised"
            /\ error' = "ZeroDivisionError or ValueError"
            /\ outcome' = outcome
       ELSE /\ pc' = "returned"
            /\ error' = error
            /\ outcome' = result
    /\ UNCHANGED <<inserted, calls, rng, world_id, world_info, query_embedding,
                   all_entities, results, i, context, requests, warnings, now>>

CalculateContextEfficiency(rag_tokens, full_tokens) ==
    Helper("calculate_context_efficiency",
           [rag_tokens |-> rag_tokens, full_tokens |-> full_tokens],
           calculate_context_efficiency(rag_tokens, full_tokens))

CalculateCostSavings(no_rag_cost, rag_cost) ==
    Helper("calculate_cost_savings",
           [no_rag_cost |-> no_rag_cost, rag_cost |-> rag_cost],
           calculate_cost_savings(no_rag_cost, rag_cost))

AggregateMetrics(list) ==
    Helper("aggregate_metrics", [results |-> list], aggregate_metrics(list))

MetricsNext ==
    \/ \E rag_tokens \in TokenCounts, full_tokens \in TokenCounts :
          CalculateContextEfficiency(rag_tokens, full_tokens)
    \/ \E no_rag_cost \in Costs, rag_cost \in Costs :
          CalculateCostSavings(no_rag_cost, rag_cost)
    \/ \E list \in ResultLists(MaxResults) : AggregateMetrics(list)

MetricsInit == Init /\ world_id = "w2"

MetricsSpec == MetricsInit /\ [][MetricsNext]_vars

-----------------------------------------------------------------------------
\* Properties.

\* The seven categories of the data model.
Categories ==
    {"items", "abilities", "locations", "npcs", "organizations", "taxonomies",
     "rules"}

\* The number of records the store holds for category c in world w.
StoreCount(w, c) ==
    LET rows == Table(c)
    IN  Cardinality({n \in 1..Len(rows) : rows[n].world_id = w})

\* The entity types whose read failed in the running invocation.
Failed == Range(warnings)

\* The requests of one kind, in the order they were issued.
RequestsOf(kind) == SelectSeq(requests, LAMBDA r : r.kind = kind)

\* The retrieval loop of the running invocation is over.
Retrieved == pc \in {"retrieved", "returned", "generate", "done"}

\* C1: Full strategy: for every world and every category whose read the store
\* answered, the number of entities returned for the category equals the
\* number of records the store holds for it in that world; the returned dict
\* has the seven categories.
C1_FullCounts ==
    Retrieval = "retrieve_all_entities" =>
        /\ \A c \in DOMAIN results :
              c \notin Failed => Len(results[c]) = StoreCount(world_id, c)
        /\ pc = "returned" =>
              /\ DOMAIN outcome[1] = Categories
              /\ \A c \in Categories :
                    c \notin Failed => Len(outcome[1][c]) = StoreCount(world_id, c)

\* C1 witness: a Full retrieval of world w2 returned, every read answered, with
\* several organizations.
C1_Witness ==
    /\ op = "retrieve_all_entities"
    /\ pc = "returned"
    /\ world_id = "w2"
    /\ warnings = <<>>
    /\ Len(outcome[1]["organizations"]) >= 2
    /\ Len(outcome[1]["locations"]) = 0

\* C2: Random strategy with k >= 0: the returned count of every category other
\* than rules is min(category_total, k) and that of rules is
\* min(rules_total, max(k, 10)), the total being the size of the category in
\* the Full result, which is the store's count when the read was answered; so
\* the counts depend on k and the totals only, not on the elements drawn.
C2_RandomCounts ==
    (Retrieval = "retrieve_random_entities" /\ pc # "select" /\ args.top_k >= 0) =>
        \A c \in DOMAIN results :
            LET total == Len(all_entities[c])
                k == args.top_k
            IN  /\ Len(results[c]) =
                      IF c = "rules"
                      THEN Min(total, Max(k, 10))
                      ELSE Min(total, k)
                /\ c \notin Failed => total = StoreCount(world_id, c)

\* C2 witness: a Random retrieval with k = 1 returned ten of the eleven rules
\* of world w1, in an order that is not the store's.
C2_Witness ==
    /\ op = "retrieve_random_entities"
    /\ pc = "returned"
    /\ world_id = "w1"
    /\ args.top_k = 1
    /\ warnings = <<>>
    /\ Len(outcome[1]["rules"]) = 10
    /\ Len(outcome[1]["items"]) = 1
    /\ outcome[1]["rules"][1] # all_entities["rules"][1]

\* C3: Random strategy: every returned entity of a category is a record of
\* the Full result of the same call for that category, and no record of the
\* Full result is returned more than once.
C3_WithoutReplacement ==
    (Retrieval = "retrieve_random_entities" /\ pc # "select") =>
        \A c \in DOMAIN results :
            /\ \A n \in 1..Len(results[c]) :
                  \E m \in 1..Len(all_entities[c]) :
                      all_entities[c][m] = results[c][n]
            /\ \A m \in 1..Len(all_entities[c]) :
                  Cardinality({n \in 1..Len(results[c]) :
                                  results[c][n] = all_entities[c][m]}) <= 1

\* C3 witness: a Random retrieval returned a strict part, of two records or
\* more, of a category of the Full result.
C3_Witness ==
    /\ Retrieval = "retrieve_random_entities"
    /\ pc = "retrieved"
    /\ \E c \in DOMAIN results :
          /\ Len(results[c]) >= 2
          /\ Len(results[c]) < Len(all_entities[c])

\* C4: Similarity strategy: the n-th nearest-neighbour request is for the n-th
\* category and carries the limit max(k, 10) for rules, min(k, 3) for
\* organizations and taxonomies and k for the other categories, the caller's
\* threshold, the caller's query embedding and the simulator's world id.
C4_RagRequests ==
    LET rpcs == RequestsOf("rpc")
        order == <<"items", "abilities", "locations", "npcs",
                   "organizations", "taxonomies", "rules">>
        k == args.top_k
    IN  /\ Len(rpcs) <= 7
        /\ Retrieval = "retrieve_with_rag" /\ Retrieved => Len(rpcs) = 7
        /\ \A n \in 1..Len(rpcs) :
              LET c == order[n]
                  p == rpcs[n].params
              IN  /\ rpcs[n].target = "match_" \o c
                  /\ p.match_count =
                        CASE c = "rules" -> Max(k, 10)
                          [] c \in {"organizations", "taxonomies"} -> Min(k, 3)
                          [] OTHER -> k
                  /\ p.match_threshold = args.similarity_threshold
                  /\ p.query_embedding = query_embedding
                  /\ op = "run_experiment" =>
                        p.query_embedding = Embed(args.player_message)
                  /\ p.world_id = world_id

\* C4 witness: a Similarity retrieval with a k between 3 and 10 has issued its
\* seven requests.
C4_Witness ==
    /\ op = "retrieve_with_rag"
    /\ pc = "returned"
    /\ args.top_k > 3
    /\ args.top_k < 10
    /\ args.similarity_threshold = 99
    /\ Len(RequestsOf("rpc")) = 7

\* C5: Similarity strategy: whatever requests fail, the retrieval does not
\* raise; every failed category is in the result with an empty sequence and a
\* warning, every category is still requested, and every category whose
\* request succeeded holds exactly the records the store returned.
C5_RagFailures ==
    Retrieval = "retrieve_with_rag" =>
        LET rpcs == RequestsOf("rpc")
        IN  /\ op = "retrieve_with_rag" => pc # "raised" /\ error = ""
            /\ pc = "raised" =>
                  error \in {"APIError: worlds", "APIError: embeddings",
                             "APIError: chat.completions"}
            /\ Failed \subseteq DOMAIN results
            /\ \A c \in Failed : results[c] = <<>>
            /\ Cardinality(DOMAIN results) = Len(rpcs)
            /\ Retrieved => DOMAIN results = Categories
            /\ \A n \in 1..Len(rpcs) :
                  \E c \in DOMAIN results :
                      /\ rpcs[n].target = "match_" \o c
                      /\ c \notin Failed =>
                            results[c] = Match(c, rpcs[n].params)

\* C5 witness: a Similarity retrieval returned after the requests of two
\* categories failed, and a later category holds the records of the store.
C5_Witness ==
    /\ op = "retrieve_with_rag"
    /\ pc = "returned"
    /\ warnings = <<"items", "npcs">>
    /\ outcome[1]["items"] = <<>>
    /\ outcome[1]["rules"] # <<>>

\* The error run_experiment raises for a mode it does not know.
UnknownModeError(mode) == "ValueError: Unknown mode: " \o mode

\* The metadata read of the running run_experiment was answered with the world.
WorldRead == DOMAIN world_info # {}

\* C6 as stated: run_experiment with an unknown tag raises the error naming
\* the tag, returns no outcome, starts no retrieval and issues no embedding,
\* entity-read or generation request.
C6_Original ==
    (op = "run_experiment" /\ args.mode \notin {"rag", "no_rag", "random"}) =>
        /\ pc = "raised"
        /\ error = UnknownModeError(args.mode)
        /\ outcome = <<>>
        /\ DOMAIN results = {}
        /\ \A n \in 1..Len(requests) : requests[n].target = "worlds"

\* C6 amended: run_experiment with an unknown tag returns no outcome, starts no
\* retrieval and issues no embedding, entity-read or generation request (its
\* only request is the metadata read, issued before the tag is examined); it
\* raises the error naming the tag when the metadata read succeeded and the
\* error of that read otherwise.
C6_UnknownMode ==
    (op = "run_experiment" /\ args.mode \notin {"rag", "no_rag", "random"}) =>
        /\ pc = "raised"
        /\ error = IF WorldRead THEN UnknownModeError(args.mode)
                   ELSE "APIError: worlds"
        /\ outcome = <<>>
        /\ DOMAIN results = {}
        /\ DOMAIN all_entities = {}
        /\ Len(requests) = 1
        /\ requests[1].kind = "select"
        /\ requests[1].target = "worlds"

\* C6 witness: run_experiment with the tag "bogus" has raised the error naming
\* the tag.
C6_Witness ==
    /\ op = "run_experiment"
    /\ args.mode = "bogus"
    /\ pc = "raised"
    /\ error = "ValueError: Unknown mode: bogus"

C8_RequestOrder ==
    op = "run_experiment" =>
        LET entity_kind == IF args.mode = "rag" THEN "rpc" ELSE "select"
            expected ==
                <<"select">>
                    \o (IF args.mode = "rag" THEN <<"embedding">> ELSE <<>>)
                    \o [n \in 1..7 |-> entity_kind]
                    \o <<"chat">>
            first == IF args.mode = "rag" THEN 3 ELSE 2
            reads == {n \in 1..Len(requests) : n >= first /\ n < first + 7}
        IN  /\ Len(requests) <= Len(expected)
            /\ \A n \in 1..Len(requests) :
                  /\ requests[n].kind = expected[n]
                  /\ requests[n].at < requests[n].done
                  /\ n > 1 => requests[n - 1].done <= requests[n].at
            /\ requests[1].target = "worlds"
            /\ \A n \in reads : requests[n].target # "worlds"
            /\ \A n \in reads, m \in reads :
                  n # m => requests[n].target # requests[m].target
            /\ outcome # <<>> =>
                  /\ Len(requests) = Len(expected)
                  /\ Len(SelectSeq(requests, LAMBDA r : r.target = "worlds")) = 1
                  /\ Len(RequestsOf("chat")) = 1
                  /\ requests[Len(requests)].kind = "chat"

\* C8 witness: a similarity invocation returned an outcome after ten requests.
C8_Witness ==
    /\ op = "run_experiment"
    /\ args.mode = "rag"
    /\ pc = "done"
    /\ outcome # <<>>
    /\ Len(requests) = 10

\* C9 as stated: a run_experiment invocation with the similarity strategy has
\* issued exactly one embedding request when it ends.
C9_Original ==
    (op = "run_experiment" /\ args.mode = "rag" /\ pc \in {"done", "raised"}) =>
        Len(RequestsOf("embedding")) = 1

\* C9 amended: a run_experiment invocation with the similarity strategy whose
\* metadata read succeeded issues exactly one embedding request, right after
\* the metadata read and before the first nearest-neighbour request (one whose
\* metadata read failed issues none); with the full or the random strategy, or
\* in a direct call of a retrieval method, no embedding request is issued.
C9_Embedding ==
    LET embeddings == RequestsOf("embedding")
    IN  /\ (op = "run_experiment" /\ args.mode = "rag") =>
              /\ Len(embeddings) <= 1
              /\ ~WorldRead => embeddings = <<>> /\ RequestsOf("rpc") = <<>>
              /\ (WorldRead /\ pc # "embed") =>
                    /\ Len(embeddings) = 1
                    /\ requests[1].target = "worlds"
                    /\ requests[2].kind = "embedding"
                    /\ requests[2].params.input = args.player_message
                    /\ \A n \in 1..Len(requests) :
                          requests[n].kind = "rpc" => n > 2
              /\ (WorldRead /\ pc = "embed") => Len(requests) = 1
        /\ ~(op = "run_experiment" /\ args.mode = "rag") => embeddings = <<>>

\* C9 witness: a similarity invocation returned an outcome; its second request
\* is the embedding request.
C9_Witness ==
    /\ op = "run_experiment"
    /\ args.mode = "rag"
    /\ pc = "done"
    /\ requests[2].kind = "embedding"
    /\ requests[3].kind = "rpc"

\* C10: the latency of an outcome is the time between issuing the generation
\* request and receiving its answer, whatever time the requests and the
\* context assembly before it took, for every strategy.
C10_Latency ==
    pc = "done" =>
        LET g == requests[Len(requests)]
        IN  /\ g.kind = "chat"
            /\ outcome[1].latency = g.done - g.at
            /\ outcome[1].latency \in 1..MaxDelay
            /\ g.done = now
            /\ g.at >= 9

\* C10 witness: an outcome whose generation request took the longest time,
\* issued after the nine ticks of the earlier steps.
C10_Witness ==
    /\ pc = "done"
    /\ args.mode = "no_rag"
    /\ outcome[1].latency = MaxDelay
    /\ now = 9 + MaxDelay

-----------------------------------------------------------------------------
\* Properties of assemble_context, checked on ContextSpec.

StartsWith(text, prefix) ==
    /\ Len(text) >= Len(prefix)
    /\ SubSeq(text, 1, Len(prefix)) = prefix

\* The categories assemble_context renders, in the order of the claim, and
\* the header of each.
RenderedOrder == <<"items", "abilities", "locations", "npcs", "rules">>
HeaderOf(c) ==
    CASE c = "items" -> "=== ITEMS ==="
      [] c = "abilities" -> "=== ABILITIES ==="
      [] c = "locations" -> "=== LOCATIONS ==="
      [] c = "npcs" -> "=== NPCs ==="
      [] c = "rules" -> "=== RULES ==="
      [] c = "organizations" -> "=== ORGANIZATIONS ==="
      [] c = "taxonomies" -> "=== TAXONOMIES ==="

\* A call of assemble_context has returned.
ContextReturned == op = "assemble_context" /\ pc = "returned"

\* The entities of category c in the input mapping of the running call
\* (none when the key is absent).
Given(c) == Get(Dict(args.entities), c, <<>>)

\* The header lines among the lines, in order.
HeaderLines(lines) == SelectSeq(lines, LAMBDA l : StartsWith(l, "=== "))

\* C11: the first line of the returned context is the WORLD SETTING header,
\* the header lines after it are those of the non-empty categories in the
\* order items, abilities, locations, npcs, rules, whatever the key order of
\* the input mapping, and no line is the line of an entity of the
\* organizations or taxonomies category.
C11_SectionOrder ==
    ContextReturned =>
        LET lines == Split(outcome[1])
            filled == SelectSeq(RenderedOrder, LAMBDA c : Given(c) # <<>>)
        IN  /\ lines[1] = "=== WORLD SETTING ==="
            /\ HeaderLines(lines) =
                  <<"=== WORLD SETTING ===">>
                  \o [n \in 1..Len(filled) |-> HeaderOf(filled[n])]
            /\ \A c \in {"organizations", "taxonomies"} :
                 \A n \in 1..Len(Given(c)) :
                   \A l \in Range(lines) :
                      "name" \in DOMAIN Given(c)[n] =>
                         /\ ~StartsWith(l, "- " \o Given(c)[n].name)
                         /\ ~StartsWith(l, "- [HIGH PRIORITY] " \o Given(c)[n].name)

\* A call has returned whose mapping lists rules before items, with entities
\* in both and in organizations and taxonomies.
C11_Witness ==
    /\ ContextReturned
    /\ args.entities # <<>>
    /\ Keys(args.entities)[1] = "rules"
    /\ Given("items") # <<>> /\ Given("rules") # <<>> /\ Given("npcs") # <<>>
    /\ Len(Given("organizations")) > 1 /\ Len(Given("taxonomies")) > 1
    /\ Len(HeaderLines(Split(outcome[1]))) = 6

\* A call of assemble_context has ended with an exception.
ContextRaised == op = "assemble_context" /\ pc = "raised"

\* C12: a call of assemble_context raises only on account of an entity of a
\* non-empty category, never because a category is missing or empty; for a
\* missing or empty category the returned context has neither the header of
\* the category nor a line of it, and the header of a rendered category is in
\* the context exactly when the category has an entity.
C12_EmptyCategories ==
    /\ ContextRaised =>
          \E c \in Range(entity_types) :
             \E n \in 1..Len(Given(c)) : "name" \notin DOMAIN Given(c)[n]
    /\ ContextReturned =>
          LET lines == Split(outcome[1])
          IN  /\ \A c \in Range(entity_types) :
                    Given(c) = <<>> =>
                       \A l \in Range(lines) :
                          /\ l # HeaderOf(c)
                          /\ ~StartsWith(l, "- " \o c)
                          /\ ~StartsWith(l, "- [HIGH PRIORITY] " \o c)
              /\ \A c \in Range(RenderedOrder) :
                    (HeaderOf(c) \in Range(lines)) <=> (Given(c) # <<>>)
              /\ Len(lines) =
                    6 + Len(Given("items")) + Len(Given("abilities"))
                      + Len(Given("locations")) + Len(Given("npcs"))
                      + Len(Given("rules"))
                      + 2 * Cardinality({c \in Range(RenderedOrder) : Given(c) # <<>>})

\* A call has returned for a mapping in which a rendered category is absent,
\* another is present and empty, and a third has entities.
C12_Witness ==
    /\ ContextReturned
    /\ \E c \in Range(RenderedOrder) : c \notin Range(Keys(args.entities))
    /\ \E c \in Range(RenderedOrder) :
          c \in Range(Keys(args.entities)) /\ Given(c) = <<>>
    /\ \E c \in Range(RenderedOrder) : Given(c) # <<>>

\* The line of the n-th entity of a rendered, non-empty category c: the n-th
\* of the lines after the header of c.
LineOf(lines, c, n) ==
    lines[(CHOOSE h \in 1..Len(lines) : lines[h] = HeaderOf(c)) + n]

\* The priority flag of an entity is set.
Flagged(e) == "is_priority" \in DOMAIN e /\ e.is_priority = TRUE

\* C13: in the returned context the line of a rule starts with
\* "- [HIGH PRIORITY] " followed by its name exactly when the rule's flag is
\* set, a rule whose flag is false or missing starts with "- " and its name,
\* and the line of an entity of another category never has the prefix, so the
\* lines with the prefix are as many as the flagged rules.
C13_PriorityPrefix ==
    ContextReturned =>
        LET lines == Split(outcome[1])
            rules == Given("rules")
        IN  /\ \A n \in 1..Len(rules) :
                  /\ StartsWith(LineOf(lines, "rules", n), "- [HIGH PRIORITY] ")
                        <=> Flagged(rules[n])
                  /\ StartsWith(LineOf(lines, "rules", n),
                         (IF Flagged(rules[n]) THEN "- [HIGH PRIORITY] " ELSE "- ")
                         \o rules[n].name \o ": ")
            /\ \A c \in Range(RenderedOrder) \ {"rules"} :
                  \A n \in 1..Len(Given(c)) :
                     /\ ~StartsWith(LineOf(lines, c, n), "- [HIGH PRIORITY] ")
                     /\ StartsWith(LineOf(lines, c, n), "- " \o Given(c)[n].name \o ": ")
            /\ Cardinality({n \in 1..Len(lines) :
                               StartsWith(lines[n], "- [HIGH PRIORITY] ")})
                  = Cardinality({n \in 1..Len(rules) : Flagged(rules[n])})

\* A call has returned for rules with the flag set, cleared and missing and
\* for an item whose flag is set.
C13_Witness ==
    /\ ContextReturned
    /\ \E n \in 1..Len(Given("rules")) : Flagged(Given("rules")[n])
    /\ \E n \in 1..Len(Given("rules")) : "is_priority" \notin DOMAIN Given("rules")[n]
    /\ \E n \in 1..Len(Given("rules")) :
          /\ "is_priority" \in DOMAIN Given("rules")[n]
          /\ Given("rules")[n].is_priority = FALSE
    /\ \E n \in 1..Len(Given("items")) : Flagged(Given("items")[n])

\* The calls of assemble_context that have ended: the earlier ones and, once
\* it has ended, the running one.
ContextCallsMade ==
    {calls[n] : n \in {m \in 1..Len(calls) : calls[m].op = "assemble_context"}}
    \cup (IF ContextReturned \/ ContextRaised THEN {CallRecord} ELSE {})

ScenarioGiven ==
    /\ op = "assemble_context"
    /\ args.world_info =
          [name |-> "Test", tone |-> "grim", setting |-> "frontier",
           description |-> "A harsh land"]
    /\ Dict(args.entities) =
          [c \in {"items", "rules"} |->
              IF c = "items"
              THEN <<[name |-> "Sword", description |-> "A sharp blade"]>>
              ELSE <<[name |-> "Initiative", description |-> "Roll first",
                      is_priority |-> TRUE]>>]

\* C15: for the scenario, assemble_context returns the eleven lines of the
\* specification in their order, each ended by a newline.
C15_Scenario ==
    ScenarioGiven =>
        /\ pc = "returned"
        /\ outcome =
              << "=== WORLD SETTING ===\n"
                 \o "Name: Test\n"
                 \o "Tone: grim\n"
                 \o "Setting: frontier\n"
                 \o "Description: A harsh land\n"
                 \o "\n"
                 \o "=== ITEMS ===\n"
                 \o "- Sword: A sharp blade\n"
                 \o "\n"
                 \o "=== RULES ===\n"
                 \o "- [HIGH PRIORITY] Initiative: Roll first\n" >>

\* The scenario's call has returned, the mapping listing items before rules.
C15_Witness ==
    /\ ScenarioGiven
    /\ pc = "returned"
    /\ Keys(args.entities) = <<"items", "rules">>
    /\ Len(Split(outcome[1])) = 12

\* The index of the header line of a rendered, non-empty category.
HeaderAt(lines, c) == CHOOSE h \in 1..Len(lines) : lines[h] = HeaderOf(c)

\* The description of an entity as the context shows it.
DescriptionOf(e) == IF "description" \in DOMAIN e THEN e.description ELSE ""

\* The section of category c is made of its header, the given line for each
\* entity of the category, in the order of the sequence, and a blank line,
\* after which the context ends or the next section starts.
SectionIs(lines, c, line(_, _)) ==
    LET h == HeaderAt(lines, c)
        count == Len(Given(c))
    IN  /\ HeaderOf(c) \in Range(lines)
        /\ Len(lines) >= h + count + 1
        /\ \A n \in 1..count : lines[h + n] = line(c, Given(c)[n])
        /\ lines[h + count + 1] = ""
        /\ Len(lines) > h + count + 1 =>
              StartsWith(lines[h + count + 2], "=== ")
        /\ Cardinality({n \in (h + 1)..(h + count + 1) : StartsWith(lines[n], "- ")})
              = count

\* The entity line as the claim has it, and with the prefix of a priority
\* rule.
PlainLine(c, e) == "- " \o e.name \o ": " \o DescriptionOf(e)
EntityLine(c, e) ==
    "- " \o (IF c = "rules" /\ Flagged(e) THEN "[HIGH PRIORITY] " ELSE "")
         \o e.name \o ": " \o DescriptionOf(e)

\* C25 as stated: in the returned context every rendered section has exactly
\* one line per entity of its category, in the order of the sequence, each
\* being "- <name>: <description>" with an empty description for an entity
\* that has none, and then one blank line.
C25_Original ==
    ContextReturned =>
        LET lines == Split(outcome[1])
        IN  \A c \in Range(RenderedOrder) :
                Given(c) # <<>> => SectionIs(lines, c, PlainLine)

\* C25 amended: the same, the line of a rule whose priority flag is set being
\* "- [HIGH PRIORITY] <name>: <description>".
C25_EntityLines ==
    ContextReturned =>
        LET lines == Split(outcome[1])
        IN  \A c \in Range(RenderedOrder) :
                Given(c) # <<>> => SectionIs(lines, c, EntityLine)

\* A call has returned for a mapping whose items and rules have three
\* entities each, the second of them without a description, and a rule with
\* the flag set.
C25_Witness ==
    /\ ContextReturned
    /\ Len(Given("items")) = 3 /\ Len(Given("rules")) = 3
    /\ "description" \notin DOMAIN Given("items")[2]
    /\ Flagged(Given("rules")[1])
    /\ \E n \in 1..Len(Split(outcome[1])) :
          Split(outcome[1])[n] = "- items-b: "

\* The field of a world record as the context shows it.
FieldOf(info, field, default) ==
    IF field \in DOMAIN info THEN info[field] ELSE default

\* C29: a call of assemble_context does not raise on account of the world
\* record, whatever fields it lacks; the first six lines of the returned
\* context are the WORLD SETTING header, the Name, Tone, Setting and
\* Description lines and a blank line, with Unknown for a missing name,
\* neutral for a missing tone and nothing for a missing setting or
\* description; when every category is empty these six lines are the context.
C29_WorldSetting ==
    /\ (op = "assemble_context" /\ pc # "idle") =>
          (pc = "returned"
              <=> \A c \in Range(RenderedOrder) :
                     \A n \in 1..Len(Given(c)) : "name" \in DOMAIN Given(c)[n])
    /\ ContextReturned =>
          LET lines == Split(outcome[1])
              info == args.world_info
          IN  /\ Len(lines) >= 6
              /\ SubSeq(lines, 1, 6) =
                    << "=== WORLD SETTING ===",
                       "Name: " \o FieldOf(info, "name", "Unknown"),
                       "Tone: " \o FieldOf(info, "tone", "neutral"),
                       "Setting: " \o FieldOf(info, "setting", ""),
                       "Description: " \o FieldOf(info, "description", ""),
                       "" >>
              /\ (\A c \in Range(RenderedOrder) : Given(c) = <<>>) =>
                    Len(lines) = 6

\* A call with an empty world record and the seven categories empty has
\* returned the block with the substituted values.
C29_Witness ==
    /\ ContextReturned
    /\ args.world_info = EmptyDict
    /\ Len(args.entities) = 7
    /\ \A c \in Range(entity_types) : Given(c) = <<>>
    /\ outcome[1] =
          "=== WORLD SETTING ===\nName: Unknown\nTone: neutral\nSetting: \nDescription: \n"

-----------------------------------------------------------------------------
\* Properties of run_experiment and of the retrievals, checked on Spec.

\* The store has a world with the simulator's world id.
WorldFound == \E n \in 1..Len(WorldsTable) : WorldsTable[n].id = world_id

\* C16: when the metadata lookup of run_experiment fails, as it does whenever
\* the store has no world with the simulator's id, the invocation has raised
\* the error of the lookup, has no outcome and no world record, and the
\* lookup is the only request it has issued: no embedding, entity read or
\* generation request follows.
C16_MissingWorld ==
    (op = "run_experiment" /\ (~WorldFound \/ ~WorldRead)) =>
        /\ ~WorldRead
        /\ pc = "raised"
        /\ error = "APIError: worlds"
        /\ outcome = <<>>
        /\ world_info = EmptyDict
        /\ context = ""
        /\ Len(requests) = 1
        /\ requests[1].kind = "select" /\ requests[1].target = "worlds"
        /\ RequestsOf("embedding") = <<>>
        /\ RequestsOf("rpc") = <<>>
        /\ RequestsOf("chat") = <<>>

\* run_experiment with a known strategy has raised for a world the store
\* does not have.
C16_Witness ==
    /\ op = "run_experiment"
    /\ ~WorldFound
    /\ args.mode = "rag"
    /\ pc = "raised"
    /\ error = "APIError: worlds"

\* C17: a run_experiment invocation issues at most one generation request,
\* its last request; when that request fails the invocation has raised the
\* error of the generation service and has no outcome, and when it is
\* answered the invocation is done without an error, for every strategy.
C17_GenerationFailure ==
    (op = "run_experiment" /\ RequestsOf("chat") # <<>>) =>
        /\ Len(RequestsOf("chat")) = 1
        /\ requests[Len(requests)].kind = "chat"
        /\ pc \in {"raised", "done"}
        /\ pc = "raised" <=> outcome = <<>>
        /\ pc = "raised" <=> error = "APIError: chat.completions"
        /\ pc = "done" <=> error = ""

\* The generation request of an invocation with the random strategy has
\* failed, after the seven entity reads.
C17_Witness ==
    /\ op = "run_experiment"
    /\ args.mode = "random"
    /\ Len(requests) = 9
    /\ requests[9].kind = "chat"
    /\ pc = "raised"
    /\ error = "APIError: chat.completions"
    /\ outcome = <<>>

\* No entity of category c in the simulator's world reaches the threshold of
\* the running similarity retrieval.
NoneReaches(c) ==
    \A r \in Range(SelectEq(Table(c), "world_id", world_id)) :
        Similarity(r, query_embedding) < args.similarity_threshold

\* C18: in a similarity retrieval, a category whose request was answered
\* while no entity of it reaches the threshold is in the result with an empty
\* sequence, whether the answer was an empty list or no data, and the
\* retrieval raises no error.
C18_EmptySimilarity ==
    Retrieval = "retrieve_with_rag" =>
        /\ op = "retrieve_with_rag" => pc # "raised"
        /\ pc \in {"rpc", "retrieved", "returned"} => error = ""
        /\ \A c \in DOMAIN results :
              (c \notin Failed /\ NoneReaches(c)) => results[c] = <<>>

\* A similarity retrieval with threshold 0.99 has returned: a category whose
\* entities all stay below the threshold is empty in the result, without a
\* warning, while another category has an entity that reaches it.
C18_Witness ==
    /\ op = "retrieve_with_rag"
    /\ pc = "returned"
    /\ args.similarity_threshold = 99
    /\ warnings = <<>>
    /\ \E c \in Categories :
          /\ StoreCount(world_id, c) > 0
          /\ NoneReaches(c)
          /\ outcome[1][c] = <<>>
    /\ \E c \in Categories : outcome[1][c] # <<>>

\* The entity reads of the running invocation, in the order of their issue:
\* the similarity requests and the selects on a table other than worlds.
EntityReads ==
    SelectSeq(requests,
              LAMBDA r : r.kind = "rpc" \/ (r.kind = "select" /\ r.target # "worlds"))

\* The categories in the order of the claim.
CategoryOrder ==
    <<"items", "abilities", "locations", "npcs", "organizations", "taxonomies",
      "rules">>

\* The retrieval of the running invocation has issued its last entity read.
ReadsDone ==
    \/ pc \in {"sample", "retrieved", "returned", "generate", "done"}
    \/ pc = "raised" /\ error \in {"APIError: chat.completions",
                                  "ValueError: Sample larger than population or is negative"}

\* C19: with each of the three strategies, whatever the store answers, the
\* entity reads are issued one per category in the order items, abilities,
\* locations, npcs, organizations, taxonomies, rules, exactly seven of them
\* once the retrieval is through, and the result the retrieval returns has
\* exactly the seven category names as keys.
C19_FixedCategories ==
    Retrieval \in {"retrieve_with_rag", "retrieve_all_entities",
                   "retrieve_random_entities"} =>
        /\ Len(EntityReads) <= 7
        /\ \A n \in 1..Len(EntityReads) :
              EntityReads[n].target =
                 IF Retrieval = "retrieve_with_rag"
                 THEN "match_" \o CategoryOrder[n] ELSE CategoryOrder[n]
        /\ ReadsDone => Len(EntityReads) = 7
        /\ Retrieved => DOMAIN results = Range(CategoryOrder)
        /\ pc = "returned" => DOMAIN outcome[1] = Range(CategoryOrder)
        /\ pc = "done" => DOMAIN outcome[1].entity_counts = Range(CategoryOrder)

\* A random retrieval has returned its seven categories although two of its
\* seven reads failed and another category is empty in the store.
C19_Witness ==
    /\ op = "retrieve_random_entities"
    /\ pc = "returned"
    /\ Len(warnings) = 2
    /\ Len(EntityReads) = 7
    /\ Cardinality(DOMAIN outcome[1]) = 7
    /\ \E c \in Categories \ Failed : StoreCount(world_id, c) = 0

-----------------------------------------------------------------------------
\* Properties of successive invocations, checked on SessionSpec.

\* The invocations that have ended on the simulator: the earlier ones and,
\* once it has ended, the running one.
CallsMade ==
    Range(calls)
    \cup (IF pc \in {"returned", "done", "raised"} THEN {CallRecord} ELSE {})

\* The exception is the failure of a remote request.
RemoteFailure(e) ==
    e \in {"APIError: worlds", "APIError: embeddings", "APIError: chat.completions"}

\* Two invocations with the same inputs and the same remote responses: the
\* same method and arguments, the same requests failed, and every request
\* took the same time (the store holds the same rows throughout).
SameCall(a, b) ==
    /\ a.op = b.op
    /\ a.args = b.args
    /\ a.warnings = b.warnings
    /\ a.durations = b.durations
    /\ (RemoteFailure(a.error) \/ RemoteFailure(b.error)) => a.error = b.error

\* The invocation uses the random strategy.
UsesRandom(a) ==
    \/ a.op = "retrieve_random_entities"
    \/ a.op = "run_experiment" /\ a.args.mode = "random"

\* No step changes the simulator's world id, the arguments of the running
\* invocation, the world metadata it has read or, once the retrieval is
\* through, the mapping it retrieved.
FieldsAndInputsKept ==
    /\ world_id' = world_id
    /\ (op # "" /\ op' = op) =>
          /\ args' = args
          /\ WorldRead => world_info' = world_info
          /\ pc \in {"retrieved", "generate"} => results' = results

\* Two invocations with the same inputs and responses ended the same way.
SameOutcomes ==
    \A a, b \in CallsMade :
        SameCall(a, b) => a.outcome = b.outcome /\ a.error = b.error

\* The same, the sampled entities of the random strategy left aside: its
\* invocations agree on the error, on the size of every category and, in
\* run_experiment, on the fields that do not derive from the sampled entities.
SameOutcomesButSample ==
    \A a, b \in CallsMade :
        SameCall(a, b) =>
            /\ a.error = b.error
            /\ Len(a.outcome) = Len(b.outcome)
            /\ ~UsesRandom(a) => a.outcome = b.outcome
            /\ (a.op = "retrieve_random_entities" /\ a.outcome # <<>>) =>
                  /\ DOMAIN a.outcome[1] = DOMAIN b.outcome[1]
                  /\ \A c \in DOMAIN a.outcome[1] :
                        Len(a.outcome[1][c]) = Len(b.outcome[1][c])
            /\ (a.op = "run_experiment" /\ a.outcome # <<>>) =>
                  /\ a.outcome[1].entity_counts = b.outcome[1].entity_counts
                  /\ a.outcome[1].total_entities_retrieved
                        = b.outcome[1].total_entities_retrieved
                  /\ a.outcome[1].latency = b.outcome[1].latency
                  /\ a.outcome[1].response_text = b.outcome[1].response_text
                  /\ a.outcome[1].output_tokens = b.outcome[1].output_tokens

\* C20 as stated: no step of an invocation changes the simulator's fields or
\* the invocation's inputs, and any two invocations on one simulator with
\* the same inputs and the same remote responses have the same outcome.
C20_Original == [][FieldsAndInputsKept /\ SameOutcomes']_vars

\* C20 amended: no step of an invocation changes the simulator's fields or
\* the invocation's inputs, and any two invocations on one simulator with
\* the same inputs and the same remote responses raise the same error and,
\* unless they use the random strategy, return the same outcome; with the
\* random strategy they agree on the size of every category but not on the
\* sampled entities, which come from the generator the earlier samples have
\* advanced.
C20_NoStateCrosses == [][FieldsAndInputsKept /\ SameOutcomesButSample']_vars

\* run_experiment has returned the same outcome as the earlier invocation,
\* which had the same arguments with the similarity strategy and the same
\* responses, although the clock has moved on.
C20_Witness ==
    /\ op = "run_experiment"
    /\ pc = "done"
    /\ args.mode = "rag"
    /\ Len(calls) = 1
    /\ SameCall(calls[1], CallRecord)
    /\ calls[1].outcome = outcome
    /\ outcome[1].latency = MaxDelay
    /\ now > 2 * (9 + MaxDelay) - 1

-----------------------------------------------------------------------------
\* Properties of the seeding scripts, checked on SeedSpec.

\* The rows the running seeding function has inserted.
SeededRows == Get(inserted, seed_table(op), <<>>)

\* The row of the claim for an entity: its name and description, the
\* embedding of the two joined by a blank, and the id of the test world.
RowFor(entity) ==
    [world_id |-> world_id, name |-> entity.name,
     description |-> entity.description,
     embedding |-> Embed(entity.name \o " " \o entity.description)]

\* C26: a seeding function goes through its list in list order: its requests
\* are, for the first entity, the second, and so on, one embedding request for
\* the entity and then one insert of the entity with that embedding and the
\* id of the test world, the embedding request of the next entity being
\* issued the fixed delay after the insert was answered; the rows inserted
\* are those of the first entities of the list, in order; when the function
\* returns there is one insert, and one row, for every entity of the list;
\* when a request fails at entity i the function ends with the rows of the
\* first i - 1 entities and no request for a later entity; and the main
\* block runs a function only after the one before it has returned.
C26_SeedingLoop ==
    op \in SeedFunctions =>
        LET list == seed_list(op)
            rows == SeededRows
            at == (Len(requests) + 1) \div 2
        IN  /\ Len(requests) <= 2 * Len(list)
            /\ \A n \in 1..Len(requests) :
                  LET entity == list[(n + 1) \div 2]
                  IN  IF n % 2 = 1
                      THEN /\ requests[n].kind = "embedding"
                           /\ requests[n].params.input
                                 = entity.name \o " " \o entity.description
                           /\ n > 1 =>
                                 requests[n].at = requests[n - 1].done + SeedDelay
                      ELSE /\ requests[n].kind = "insert"
                           /\ requests[n].target = seed_table(op)
                           /\ requests[n].params = RowFor(entity)
                           /\ requests[n].at = requests[n - 1].done
            /\ Len(rows) <= Len(list)
            /\ \A m \in 1..Len(rows) : rows[m] = RowFor(list[m])
            /\ pc = "returned" =>
                  /\ Len(rows) = Len(list)
                  /\ Len(RequestsOf("insert")) = Len(list)
                  /\ Len(RequestsOf("embedding")) = Len(list)
            /\ pc = "raised" =>
                  /\ error # ""
                  /\ i = at
                  /\ Len(rows) = at - 1
                  /\ Len(RequestsOf("insert")) \in {at - 1, at}
            /\ pc \in {"seed_embed", "seed_insert"} => Len(rows) = i - 1
            /\ pc = "seed_sleep" => Len(rows) = i
            /\ \A n \in 1..Len(calls) :
                  /\ calls[n].op = MainOrder[n]
                  /\ calls[n].error = ""
                  /\ Len(inserted[seed_table(calls[n].op)]) = Len(seed_list(calls[n].op))
            /\ op \in Range(MainOrder) => op = MainOrder[Len(calls) + 1]

\* add_npcs has ended with the error of its second insert: one npc is in the
\* store, the items and abilities are all there, and no rule.
C26_Witness ==
    /\ op = "add_npcs"
    /\ pc = "raised"
    /\ i = 2
    /\ error = "APIError: npcs"
    /\ Len(requests) = 4
    /\ Len(inserted["npcs"]) = 1
    /\ Len(inserted["items"]) = MaxList
    /\ Len(inserted["abilities"]) = MaxList
    /\ "rules" \notin DOMAIN inserted

-----------------------------------------------------------------------------
\* Properties of the metrics helpers, checked on MetricsSpec.

\* C30: calculate_context_efficiency, calculate_cost_savings and
\* aggregate_metrics return for every input and never raise; for
\* full_tokens = 0 calculate_context_efficiency returns 0, and otherwise the
\* reduction in percent; for a no_rag_cost that is zero or negative
\* calculate_cost_savings reports a savings percentage of 0, next to the
\* savings amount and the two costs; aggregate_metrics returns an empty
\* mapping for an empty list and otherwise a mapping whose count is the
\* length of the list.
C30_NoDivisionByZero ==
    /\ op \in {"calculate_context_efficiency", "calculate_cost_savings",
               "aggregate_metrics"} =>
          /\ pc = "returned"
          /\ error = ""
          /\ Len(outcome) = 1
    /\ op = "calculate_context_efficiency" =>
          LET full == args.full_tokens
              saved == args.full_tokens - args.rag_tokens
          IN  /\ full = 0 => outcome[1] = 0
              /\ full > 0 =>
                    /\ outcome[1] * full <= saved * 100
                    /\ saved * 100 < (outcome[1] + 1) * full
    /\ op = "calculate_cost_savings" =>
          /\ args.no_rag_cost <= 0 => outcome[1].savings_percentage = 0
          /\ args.no_rag_cost = args.rag_cost => outcome[1].savings_percentage = 0
          /\ outcome[1].savings_amount = args.no_rag_cost - args.rag_cost
          /\ outcome[1].no_rag_cost = args.no_rag_cost
          /\ outcome[1].rag_cost = args.rag_cost
    /\ op = "aggregate_metrics" =>
          IF args.results = <<>>
          THEN DOMAIN outcome[1] = {}
          ELSE /\ outcome[1].count = Len(args.results)
               /\ outcome[1].count > 0
               /\ outcome[1].input_tokens.min <= outcome[1].input_tokens.mean
               /\ outcome[1].input_tokens.mean <= outcome[1].input_tokens.max

\* calculate_context_efficiency has returned 0 for a full context of no
\* token and a similarity context of some.
C30_Witness ==
    /\ op = "calculate_context_efficiency"
    /\ pc = "returned"
    /\ args.full_tokens = 0
    /\ args.rag_tokens > 0
    /\ outcome = <<0>>

-----------------------------------------------------------------------------
\* Properties of the generation request, of the outcome and of failing reads,
\* checked on Spec.

\* The generation requests of the running invocation.
ChatRequests == RequestsOf("chat")

\* The system prompt of the specification, line by line.
FixedSystemPrompt ==
    Join(<< "You are an experienced and objective game master for a tabletop role-playing game.",
            "",
            "DM Guidelines:",
            "- Acknowledge player actions with logical consequences",
            "- Provide immersive, vivid descriptions",
            "- Avoid describing player emotions (only environmental effects)",
            "- Use objective narration without meta-commentary",
            "- Refer to unknown entities descriptively, not by name",
            "- Proactively advance the story to decision points" >>)

\* The closing instruction of the user prompt.
ClosingInstruction ==
    "Generate an engaging DM response based on the world context and player action."

\* C21: with every strategy the generation request carries two messages: the
\* fixed system prompt, and a user prompt made of the assembled context, a
\* blank line, the line Player Action: "<player_message>", a blank line and
\* the fixed closing instruction; the request is determined by the assembled
\* context, the player message and the temperature, so for a given player
\* message the requests of the strategies differ in the context part only.
C21_PromptConstruction ==
    \A n \in 1..Len(ChatRequests) :
        LET p == ChatRequests[n].params
        IN  /\ op = "run_experiment"
            /\ args.mode \in {"rag", "no_rag", "random"}
            /\ Len(p.messages) = 2
            /\ p.messages[1] = [role |-> "system", content |-> FixedSystemPrompt]
            /\ p.messages[2].role = "user"
            /\ p.messages[2].content =
                  Join(<< context,
                          "",
                          "Player Action: \"" \o args.player_message \o "\"",
                          "",
                          ClosingInstruction >>)
            /\ context = assemble_context(results, world_info)
            /\ p = [model |-> "gpt-4.1", messages |-> p.messages,
                    temperature |-> args.temperature, max_tokens |-> 1000]

\* A similarity invocation for the second player message has issued its
\* generation request, the context holding an entity section.
C21_Witness ==
    /\ op = "run_experiment"
    /\ args.mode = "rag"
    /\ args.player_message = "I look around"
    /\ Len(ChatRequests) = 1
    /\ \E c \in {"items", "npcs", "rules"} : results[c] # <<>>
    /\ context # ""

\* The answered generation request of the running invocation.
Generation == ChatRequests[Len(ChatRequests)]

\* C22: the outcome run_experiment returns carries the strategy tag, the
\* player message, top_k, the similarity threshold and the temperature as the
\* caller passed them, the context that went into the generation request, one
\* entity count per category, seven in all, each the length of the retrieved
\* sequence, their sum as total_entities_retrieved, and the input, output and
\* total token counts the generation service reported.
C22_OutcomeContents ==
    (op = "run_experiment" /\ pc = "done") =>
        LET o == outcome[1]
            sent == Generation.params.messages
            reported == Usage(sent, o.response_text)
        IN  /\ Len(outcome) = 1
            /\ o.mode = args.mode
            /\ o.player_message = args.player_message
            /\ o.top_k = args.top_k
            /\ o.similarity_threshold = args.similarity_threshold
            /\ o.temperature = args.temperature
            /\ o.temperature = Generation.params.temperature
            /\ sent[2].content =
                  o.context \o "\n\nPlayer Action: \"" \o o.player_message
                            \o "\"\n\n" \o ClosingInstruction
            /\ DOMAIN o.entity_counts = Categories
            /\ \A c \in Categories : o.entity_counts[c] = Len(results[c])
            /\ o.total_entities_retrieved =
                  Len(results["items"]) + Len(results["abilities"])
                  + Len(results["locations"]) + Len(results["npcs"])
                  + Len(results["organizations"]) + Len(results["taxonomies"])
                  + Len(results["rules"])
            /\ o.response_text = Completion(sent)
            /\ o.input_tokens = reported.prompt_tokens
            /\ o.output_tokens = reported.completion_tokens
            /\ o.total_tokens = reported.total_tokens

\* run_experiment has returned an outcome of the random strategy with k = 1
\* for world w2: five entities in four categories, two of them categories
\* that the context does not render.
C22_Witness ==
    /\ op = "run_experiment"
    /\ pc = "done"
    /\ world_id = "w2"
    /\ args.mode = "random"
    /\ args.top_k = 1
    /\ args.similarity_threshold = 99
    /\ warnings = <<>>
    /\ outcome[1].entity_counts["organizations"] = 1
    /\ outcome[1].entity_counts["rules"] = 2
    /\ outcome[1].total_entities_retrieved = 7
    /\ outcome[1].input_tokens > outcome[1].output_tokens

\* The error random.sample raises.
SampleError == "ValueError: Sample larger than population or is negative"

\* The result of the reads of the running full or random retrieval, as far
\* as it has got.
FullResult ==
    IF Retrieval = "retrieve_random_entities" /\ pc # "select"
    THEN all_entities ELSE results

\* C27: in the full and the random strategy a failed read of a category
\* raises nothing: the category is in the full result with an empty
\* sequence and a warning, the remaining categories are still read, seven
\* reads in all, and the random sample of the category is empty; the only
\* error such a retrieval can end in is the ValueError of random.sample for a
\* negative k, and a run_experiment invocation in full or random mode whose
\* metadata read succeeded has issued its generation request when it ends,
\* whatever reads failed, unless it ended in that ValueError.
C27_ReadFailures ==
    Retrieval \in {"retrieve_all_entities", "retrieve_random_entities"} =>
        /\ Failed \subseteq DOMAIN FullResult
        /\ \A c \in Failed : FullResult[c] = <<>>
        /\ \A c \in Failed \cap DOMAIN results : results[c] = <<>>
        /\ Len(EntityReads) = Cardinality(DOMAIN FullResult)
        /\ \A n \in 1..Len(warnings) :
              \E m \in 1..Len(EntityReads) :
                  /\ EntityReads[m].target = warnings[n]
                  /\ (m < 7 /\ pc # "select") => Len(EntityReads) = 7
        /\ pc = "raised" =>
              /\ error \in {"APIError: worlds", "APIError: chat.completions",
                            SampleError}
              /\ op # "run_experiment" => error = SampleError
              /\ error = SampleError =>
                    /\ Retrieval = "retrieve_random_entities"
                    /\ args.top_k < 0
                    /\ \E c \in Categories \ Failed : all_entities[c] # <<>>
        /\ (op = "run_experiment" /\ WorldRead /\ pc \in {"done", "raised"}
            /\ error # SampleError) =>
              /\ Len(ChatRequests) = 1
              /\ Len(EntityReads) = 7
              /\ Generation.at >= EntityReads[7].done

\* run_experiment in random mode has returned an outcome although the reads
\* of items and npcs failed; both are empty in the sample, and the rules,
\* read after them, are not.
C27_Witness ==
    /\ op = "run_experiment"
    /\ args.mode = "random"
    /\ pc = "done"
    /\ warnings = <<"items", "npcs">>
    /\ all_entities["items"] = <<>> /\ results["items"] = <<>>
    /\ results["npcs"] = <<>>
    /\ results["rules"] # <<>>
    /\ Len(ChatRequests) = 1
    /\ outcome[1].entity_counts["items"] = 0

\* The number of times x occurs in the sequence s.
Occurrences(s, x) == Cardinality({n \in 1..Len(s) : s[n] = x})

\* s is a permutation of t.
Permutation(s, t) ==
    /\ Len(s) = Len(t)
    /\ \A x \in Range(s) \cup Range(t) : Occurrences(s, x) = Occurrences(t, x)

\* k is at least the size of every category of the full result of the
\* running random retrieval.
CoversEveryCategory ==
    /\ DOMAIN all_entities = Categories
    /\ \A c \in Categories : args.top_k >= Len(all_entities[c])

\* C28: in a random retrieval whose k is at least the size of every category
\* of the full result, the sampling does not raise and returns for every
\* category a permutation of the full result: the same records, each once;
\* so the entity counts of the outcome are the sizes of the full result and
\* the lines of the assembled context are, as a set, the lines of the
\* context of the full result.
C28_RandomCoversFull ==
    (Retrieval = "retrieve_random_entities" /\ pc # "select" /\ pc # "sample"
     /\ CoversEveryCategory) =>
        /\ error # SampleError
        /\ DOMAIN results = Categories
        /\ \A c \in Categories :
              /\ Permutation(results[c], all_entities[c])
              /\ \A x \in Range(all_entities[c]) : Occurrences(results[c], x) = 1
        /\ pc = "returned" => entity_counts(outcome[1]) = entity_counts(all_entities)
        /\ (op = "run_experiment" /\ pc \in {"generate", "done", "raised"}) =>
              Range(Split(context))
                 = Range(Split(assemble_context(all_entities, world_info)))
        /\ pc = "done" =>
              /\ outcome[1].entity_counts = [c \in Categories |-> Len(all_entities[c])]
              /\ outcome[1].total_entities_retrieved
                    = SumValues(entity_counts(all_entities), Categories)

\* run_experiment in random mode with k = 11 has returned for the world with
\* eleven rules: the sample holds them all, in another order than the store's.
C28_Witness ==
    /\ op = "run_experiment"
    /\ args.mode = "random"
    /\ pc = "done"
    /\ world_id = "w1"
    /\ args.top_k = RulesFloor + 1
    /\ warnings = <<>>
    /\ Len(all_entities["rules"]) = RulesFloor + 1
    /\ results["rules"] # all_entities["rules"]
    /\ outcome[1].entity_counts["rules"] = RulesFloor + 1
    /\ context # assemble_context(all_entities, world_info)

-----------------------------------------------------------------------------
\* Properties of the parameters, checked on AblationSpec.

\* The invocations that have ended in the ablation: the first one and, once
\* it has ended, the running one.
RunsMade ==
    Range(calls)
    \cup (IF pc \in {"returned", "done", "raised"} THEN {RunRecord} ELSE {})

\* The requests an invocation sent to the store and to the embedding service.
RetrievalRequests(a) == SelectSeq(a.requests, LAMBDA r : r.kind # "chat")

\* The store answered two invocations alike: the same reads failed.
SameStoreResponses(a, b) ==
    /\ a.warnings = b.warnings
    /\ (a.error = "APIError: worlds") <=> (b.error = "APIError: worlds")

\* The invocation ran the full strategy.
FullRun(a) ==
    \/ a.op = "retrieve_all_entities"
    \/ a.op = "run_experiment" /\ a.args.mode = "no_rag"

\* C23: the full strategy returns, for every category whose read was
\* answered, the records of the world in the order of the store; and two
\* run_experiment invocations in full mode that the store answered alike
\* issued the same metadata and entity reads, retrieved the same entities and
\* assembled the same context whatever their top_k and similarity_threshold,
\* which the outcome only echoes.
C23_FullTakesNoParameters ==
    /\ \A a \in RunsMade :
          (FullRun(a) /\ DOMAIN a.entities = Categories) =>
              /\ \A c \in Categories \ Range(a.warnings) :
                    a.entities[c] = SelectEq(Table(c), "world_id", world_id)
              /\ a.op = "retrieve_all_entities" => a.outcome = <<a.entities>>
    /\ \A a, b \in RunsMade :
          (/\ a.op = "run_experiment" /\ b.op = "run_experiment"
           /\ a.args.mode = "no_rag" /\ b.args.mode = "no_rag"
           /\ SameStoreResponses(a, b))
          => /\ RetrievalRequests(a) = RetrievalRequests(b)
             /\ a.entities = b.entities
             /\ a.context = b.context
             /\ a.outcome # <<>> =>
                   /\ a.outcome[1].top_k = a.args.top_k
                   /\ a.outcome[1].similarity_threshold = a.args.similarity_threshold
                   /\ a.outcome[1].context = b.context
                   /\ a.outcome[1].entity_counts = entity_counts(b.entities)

\* A full invocation with top_k 1 and threshold 0.99 has returned the context
\* of the baseline, which ran in full mode too; it read the several
\* organizations of the world in the order of the store.
C23_Witness ==
    /\ op = "run_experiment"
    /\ pc = "done"
    /\ args.mode = "no_rag"
    /\ args.top_k = 1
    /\ args.similarity_threshold = 99
    /\ Len(calls) = 1
    /\ calls[1].op = "run_experiment"
    /\ calls[1].args.mode = "no_rag"
    /\ calls[1].args.top_k # args.top_k
    /\ calls[1].args.similarity_threshold # args.similarity_threshold
    /\ calls[1].warnings = warnings
    /\ calls[1].context = context
    /\ Len(results["organizations"]) > 1
    /\ outcome[1].entity_counts["organizations"] > outcome[1].top_k

\* Two run_experiment invocations with the same arguments but, possibly, the
\* temperature.
SameButTemperature(a, b) ==
    /\ a.op = "run_experiment" /\ b.op = "run_experiment"
    /\ a.args.mode = b.args.mode
    /\ a.args.player_message = b.args.player_message
    /\ a.args.top_k = b.args.top_k
    /\ a.args.similarity_threshold = b.args.similarity_threshold

\* The remote services answered two invocations alike up to the generation:
\* the same reads failed and the embedding request failed in both or in none.
SameResponses(a, b) ==
    /\ SameStoreResponses(a, b)
    /\ (a.error = "APIError: embeddings") <=> (b.error = "APIError: embeddings")

\* The generation requests of an invocation.
GenerationRequests(a) == SelectSeq(a.requests, LAMBDA r : r.kind = "chat")

\* C24: the temperature of the generation request is the temperature passed
\* to run_experiment, and it influences nothing else: two invocations that
\* differ in temperature only, answered alike, issued the same metadata,
\* embedding and entity-read requests and, in full or similarity mode,
\* retrieved the same entities, assembled the same context, sent generation
\* requests that differ in the temperature only and returned outcomes that
\* agree on every field the invocation computes but the temperature; and two
\* random invocations that differ in the similarity threshold issued the same
\* requests to the store.
C24_IsolatedParameters ==
    /\ \A a \in RunsMade :
          \A n \in 1..Len(GenerationRequests(a)) :
              GenerationRequests(a)[n].params.temperature = a.args.temperature
    /\ \A a, b \in RunsMade :
          (SameButTemperature(a, b) /\ SameResponses(a, b)) =>
              /\ RetrievalRequests(a) = RetrievalRequests(b)
              /\ a.args.mode \in {"no_rag", "rag"} =>
                    /\ a.entities = b.entities
                    /\ a.context = b.context
                    /\ Len(GenerationRequests(a)) = Len(GenerationRequests(b))
                    /\ \A n \in 1..Len(GenerationRequests(a)) :
                          [GenerationRequests(a)[n].params
                              EXCEPT !.temperature = b.args.temperature]
                          = GenerationRequests(b)[n].params
                    /\ (a.outcome # <<>> /\ b.outcome # <<>>) =>
                          \A field \in {"mode", "player_message", "context",
                                        "context_size_tokens", "entity_counts",
                                        "total_entities_retrieved", "top_k",
                                        "similarity_threshold"} :
                              a.outcome[1][field] = b.outcome[1][field]
    /\ \A a, b \in RunsMade :
          (/\ a.op = "run_experiment" /\ b.op = "run_experiment"
           /\ a.args.mode = "random" /\ b.args.mode = "random"
           /\ a.args.player_message = b.args.player_message
           /\ a.args.top_k = b.args.top_k
           /\ SameStoreResponses(a, b))
          => RetrievalRequests(a) = RetrievalRequests(b)

\* A similarity invocation with temperature 0.5 has returned after a baseline
\* with temperature 0.8 and otherwise the same arguments: both retrieved
\* entities and sent a generation request.
C24_Witness ==
    /\ op = "run_experiment"
    /\ pc = "done"
    /\ args.mode = "rag"
    /\ args.temperature = 5
    /\ Len(calls) = 1
    /\ SameButTemperature(calls[1], RunRecord)
    /\ calls[1].args.temperature = 8
    /\ calls[1].outcome # <<>>
    /\ calls[1].warnings = warnings
    /\ \E c \in {"items", "npcs", "rules"} : results[c] # <<>>
    /\ GenerationRequests(RunRecord)[1].params.temperature = 5
    /\ GenerationRequests(calls[1])[1].params.temperature = 8

====
